---- MODULE Spec2Model ----
(***************************************************************************)
(* GitHub activity dashboard: the HTTP fetch layer (ghFetch, ghFetchAll)   *)
(* of scripts/utils/api.js and the statistics collectors of                *)
(* scripts/fetch_stats.js, as state machines whose steps run from one      *)
(* await to the next.                                                      *)
(***************************************************************************)
EXTENDS Integers, Sequences, FiniteSets, TLC

VARIABLES
    opts,             \* ghFetch: [max202, maxNetworkRetries] of the running call
    req,              \* ghFetch: what the running call asks for [endpoint, repo, page]
    attempt,          \* ghFetch: let attempt
    networkAttempts,  \* ghFetch: let networkAttempts
    fpc,              \* ghFetch: "idle" | "fetching" | "sleeping" | "returned" | "thrown"
    fres,             \* ghFetch: value returned or error thrown
    trace,            \* ghFetch: requests, responses and sleeps of the running call
    page,             \* ghFetchAll: let page
    results,          \* ghFetchAll: const results
    apc,              \* ghFetchAll: "idle" | "awaiting" | "returned" | "thrown"
    ares,             \* ghFetchAll: error thrown (the value returned is results)
    received,         \* ghFetchAll: the chunks its ghFetch calls returned, in order
    calls,            \* every ghFetch call made so far, in order
    version,          \* fetch_stats.js: "fallback" | "budget" ("none": no collector runs)
    token,            \* fetch_stats.js: process.env.GH_PAT is set
    guard,            \* fetch_stats.js: what the cache-first guard found
    cpc,              \* fetch_stats.js: "start" | "discover" | "langs" | "stats" |
                      \*   "commits" | "done" | "exit"
    exitCode,         \* the process exit code, -1 while the process runs
    repoList,         \* fetch_stats.js: const repoList
    idx,              \* fetch_stats.js: position of the for...of loop in repoList
    processed,        \* fetch_stats.js: let processed
    langs,            \* fetch_stats.js: langs of the repository at idx
    me,               \* fetch_stats.js: const me of the repository at idx
    newCache,         \* fetch_stats.js: const newCache
    newTotals,        \* fetch_stats.js: const newTotals
    disk,             \* the files of data/, by the name given to readJSON/writeJSON
    writes,           \* the names writeJSON was called with, in order
    elapsedMs,        \* Date.now() - startTs
    statsLog,         \* what the run printed last about a repository's requests
    changeLog,        \* the console line on detectChanges
    arg,              \* a helper called on its own: the function and its arguments
    ret,              \* a helper called on its own: what it returned
    stored            \* a helper called on its own: the object writeJSON was last
                      \*   given, by file name

\* the locals of ghFetch, of ghFetchAll
gfVars == <<opts, req, attempt, networkAttempts, fpc, fres, trace>>
gaVars == <<page, results, apc, ares, received>>
coVars == <<arg, ret, stored, version, token, guard, cpc, exitCode, repoList, idx, processed, langs, me,
            newCache, newTotals, disk, writes, elapsedMs, statsLog, changeLog>>
vars == <<opts, req, attempt, networkAttempts, fpc, fres, trace,
          page, results, apc, ares, received, calls,
          arg, ret, stored, version, token, guard, cpc, exitCode, repoList, idx, processed, langs, me,
          newCache, newTotals, disk, writes, elapsedMs, statsLog, changeLog>>

(***************************************************************************)
(* Bounds of the model.                                                    *)
(***************************************************************************)
\* largest opts.max202 the single-call harness passes
Max202Opt == 3
\* largest opts.maxNetworkRetries the single-call harness passes
MaxNetOpt == 2
\* most pages the server serves full before it runs out of items
MaxPages == 3
\* most repositories the credential can see
MaxRepos == 2
\* most commits a commit listing returns
MaxCommits == 3
\* the largest total of a totals mapping given to detectChanges
MaxTotal == 2
\* days in each stretch of days weekStartUnix is given
WeekSpan == 8
\* most repositories of a cache given to buildFigure1Data or buildFigure2Data
MaxFigRepos == 2

(***************************************************************************)
(* Program constants.                                                      *)
(***************************************************************************)
Default202 == 4
DefaultNetworkRetries == 2
PageSize == 100
NetworkBackoffBase == 500
Wait202Base == 1500
Wait202Cap == 30000
USERNAME == "chasenunez"
StatsMax202Fallback == 2
StatsMax202Budget == 3
GlobalTimeoutMs == 600000
MaxCacheAgeMs == 604800000
DayMs == 86400000

Min(a, b) == IF a < b THEN a ELSE b

RECURSIVE Pow(_, _)
Pow(b, e) == IF e = 0 THEN 1 ELSE b * Pow(b, e - 1)

(***************************************************************************)
(* Values.                                                                 *)
(***************************************************************************)
\* a fetch() rejection: a network error, or the AbortError of the timer
TransportErrors == {"network", "timeout"}

NoPayload == [isArray |-> FALSE, items |-> <<>>, obj |-> "none"]
\* a settled call: kind names the return or the throw statement it left by
NoRes == [kind |-> "none", status |-> 0, code |-> "", attempts |-> 0,
          cause |-> "", page |-> 0, payload |-> NoPayload]
NoReq == [endpoint |-> "none", repo |-> 0, page |-> 0]

Files == {"stats_cache.json", "last_totals.json", "data/last_totals.json"}

NoFile == [exists |-> FALSE, parseable |-> FALSE, val |-> <<>>]

NoLog == [i |-> 0, line |-> "", err |-> "none", at |-> "none", found |-> FALSE,
          weeksOk |-> FALSE, fb |-> "none", fbTotal |-> 0]

NoMe == [found |-> FALSE, total |-> 0, weeks |-> <<>>, weeksIsArray |-> FALSE]

\* no helper is called on its own, none has returned
NoArg == [fn |-> "none"]
NoRet == [done |-> FALSE]

\* the cache-first guard has not run
NoGuard == [seen |-> "none", ageMs |-> 0]

\* the values the variables of fetch_stats.js hold when no collector runs
NoCollector ==
    /\ version = "none"
    /\ token = FALSE
    /\ arg = NoArg
    /\ ret = NoRet
    /\ stored = <<>>
    /\ guard = NoGuard
    /\ cpc = "none"
    /\ exitCode = -1
    /\ repoList = <<>>
    /\ idx = 0
    /\ processed = 0
    /\ langs = <<>>
    /\ me = NoMe
    /\ newCache = <<>>
    /\ newTotals = <<>>
    /\ disk = [f \in Files |-> NoFile]
    /\ writes = <<>>
    /\ elapsedMs = 0
    /\ statsLog = NoLog
    /\ changeLog = "none"

\* trace events: status is 0 when fetch() rejected, out then names the error
EvRequest == [ev |-> "request", status |-> 0, out |-> "", ms |-> 0, body |-> NoPayload]
EvResponse(s, o, b) == [ev |-> "response", status |-> s, out |-> o, ms |-> 0, body |-> b]
EvSleep(ms) == [ev |-> "sleep", status |-> 0, out |-> "", ms |-> ms, body |-> NoPayload]

\* the trace is kept for the calls made outside a collector run
Traced(t) == IF cpc = "none" THEN t ELSE <<>>

\* the statuses the server answers with
Statuses == {200, 202, 404, 500}

\* the parsed bodies the server may send for a request
GenericPayloads ==
    { [isArray |-> FALSE, items |-> <<>>, obj |-> t] : t \in {"p1", "p2"} }

PageItems(p, n) == [i \in 1..n |-> <<p, i>>]

\* page p of a listing: full while the server has items left, then a short
\* page or an empty one; a body that is no array is possible too
PagePayloads(p) ==
    (IF p <= MaxPages
       THEN {[isArray |-> TRUE, items |-> PageItems(p, PageSize), obj |-> "none"]}
       ELSE {})
    \cup { [isArray |-> TRUE, items |-> PageItems(p, n), obj |-> "none"] : n \in {0, 40} }
    \cup { [isArray |-> FALSE, items |-> <<>>, obj |-> "message"] }

\* GET /user/repos: at most MaxRepos repositories, so a single short page;
\* repository i is private when i is even
RepoName(i) == "o/r" \o ToString(i)

RepoLists ==
    UNION { { [i \in 1..n |-> [full_name |-> RepoName(i), archived |-> a[i],
                               private |-> (i % 2 = 0)]] :
              a \in [1..n -> BOOLEAN] } : n \in 0..MaxRepos }

RepoPayloads ==
    { [isArray |-> TRUE, items |-> l, obj |-> "none"] : l \in RepoLists }
    \cup { [isArray |-> FALSE, items |-> <<>>, obj |-> "message"] }

\* GET /repos/{owner}/{name}/languages: bytes by language
LangPayloads ==
    { [isArray |-> FALSE, items |-> <<>>, obj |-> l] :
        l \in { <<>>, ("JavaScript" :> 10) @@ ("Python" :> 5) } }

\* GET /repos/{owner}/{name}/stats/contributors
Contributor(login, total, weeks, isArr) ==
    [login |-> login, total |-> total, weeks |-> weeks, weeksIsArray |-> isArr]

\* week starts as the API reports them, in s: Sun 4 Jan 1970, Sun 11 Jan 1970
Sunday1 == (3 * DayMs) \div 1000
Sunday2 == (10 * DayMs) \div 1000

StatsPayloads ==
    { [isArray |-> FALSE, items |-> <<>>, obj |-> "object"],
      [isArray |-> TRUE, obj |-> "none",
       items |-> <<Contributor("other", 5, <<[w |-> Sunday1, c |-> 5]>>, TRUE)>>],
      [isArray |-> TRUE, obj |-> "none",
       items |-> <<Contributor("none", 1, <<>>, TRUE),
                   Contributor(USERNAME, 3, <<[w |-> Sunday1, c |-> 1],
                                              [w |-> Sunday2, c |-> 2]>>, TRUE)>>],
      [isArray |-> TRUE, obj |-> "none",
       items |-> <<Contributor(USERNAME, 0, <<[w |-> Sunday1, c |-> 0]>>, TRUE)>>],
      [isArray |-> TRUE, obj |-> "none",
       items |-> <<Contributor(USERNAME, 2, <<>>, FALSE)>>] }

\* GET /repos/{owner}/{name}/commits?author=&since=: at most MaxCommits commits,
\* so a single short page; date is commit.author.date in ms (Date.parse),
\* -1 for a commit that carries no date
Commit(ms) == [date |-> ms]

\* Sat 10 Jan 1970, Sun 4 Jan 1970 00:00:01, Thu 1 Jan 1970, no date
CommitDates == <<9 * DayMs, 3 * DayMs + 1000, 0, -1>>

CommitLists ==
    { <<>>, <<Commit(-1)>> }
    \cup { [i \in 1..MaxCommits |-> Commit(CommitDates[((i + k - 1) % 4) + 1])] :
             k \in 0..1 }

CommitPayloads ==
    { [isArray |-> TRUE, items |-> l, obj |-> "none"] : l \in CommitLists }

PayloadsFor(r) ==
    CASE r.endpoint = "page" -> PagePayloads(r.page)
      [] r.endpoint = "repos" -> RepoPayloads
      [] r.endpoint = "languages" -> LangPayloads
      [] r.endpoint = "stats" -> StatsPayloads
      [] r.endpoint = "commits" -> CommitPayloads
      [] OTHER -> GenericPayloads

(***************************************************************************)
(* ghFetch                                                                 *)
(***************************************************************************)
\* NetworkRetryAllowed counting the first attempt as a retry
NetworkRetryAllowedStrict(n, maxNet) == n < maxNet

\* NetworkRetryAllowed retrying once too often
NetworkRetryAllowedLate(n, maxNet) == n <= maxNet + 1

\* if (networkAttempts <= maxNetworkRetries)
NetworkRetryAllowed(n, maxNet) == n <= maxNet

\* StillComputing taking a server error for a retryable answer too
StillComputingOr5xx(s) == s = 202 \/ s >= 500

\* if (res.status === 202)
StillComputing(s) == s = 202

\* GiveUp202 retrying once too often
GiveUp202Late(a, m) == a > m + 1

\* GiveUp202 giving up one attempt too soon
GiveUp202Early(a, m) == a >= m

\* if (attempt > max202)
GiveUp202(a, m) == a > m

\* res.ok
ResOk(s) == s >= 200 /\ s <= 299

\* const backoff = 500 * Math.pow(2, networkAttempts - 1)
NetworkBackoff(n) == NetworkBackoffBase * Pow(2, n - 1)

\* const wait = Math.min(30000, 1500 * Math.pow(1.8, attempt - 1)), in whole
\* milliseconds (the timer drops the fraction)
Wait202(a) == Min(Wait202Cap, (Wait202Base * Pow(9, a - 1)) \div Pow(5, a - 1))

\* opts.max202 / opts.maxNetworkRetries when they are numbers, else the defaults
\* (-1 stands for an option that was not passed)
OptsOf(o) ==
    [max202 |-> IF o.max202 = -1 THEN Default202 ELSE o.max202,
     maxNetworkRetries |-> IF o.maxNetworkRetries = -1
                             THEN DefaultNetworkRetries ELSE o.maxNetworkRetries]

\* the call ghFetch(path, token, o): runs to the first await fetch(...)
GhCall(o, r) ==
    /\ opts' = OptsOf(o)
    /\ req' = r
    /\ attempt' = 1
    /\ networkAttempts' = 0
    /\ fpc' = "fetching"
    /\ fres' = NoRes
    /\ trace' = Traced(<<EvRequest>>)
    /\ calls' = Append(calls, r)

\* return / throw: the call settles with r and its locals are gone
Settle(pc, r, ev) ==
    /\ fpc' = pc
    /\ fres' = r
    /\ trace' = Traced(Append(trace, ev))
    /\ attempt' = 0
    /\ networkAttempts' = 0

\* await fetch(...) rejects: network error or timeout
FetchTransportError ==
    /\ fpc = "fetching"
    /\ \E e \in TransportErrors :
         LET n == networkAttempts + 1 IN
         IF NetworkRetryAllowed(n, opts.maxNetworkRetries)
           THEN /\ networkAttempts' = n
                /\ fpc' = "sleeping"
                /\ trace' = Traced(trace \o <<EvResponse(0, e, NoPayload),
                                              EvSleep(NetworkBackoff(n))>>)
                /\ UNCHANGED <<fres, attempt>>
           ELSE Settle("thrown",
                       [NoRes EXCEPT !.kind = "NetworkFailure",
                                     !.attempts = n, !.cause = e],
                       EvResponse(0, e, NoPayload))
    /\ UNCHANGED <<opts, req, calls, gaVars, coVars>>

\* res.status === 202
Fetch202 ==
    /\ fpc = "fetching"
    /\ \E s \in Statuses :
         /\ StillComputing(s)
         /\ IF GiveUp202(attempt, opts.max202)
              THEN Settle("thrown",
                          [NoRes EXCEPT !.kind = "StatsNotReady",
                                        !.code = "GH_STATS_202",
                                        !.attempts = attempt],
                          EvResponse(s, "", NoPayload))
              ELSE /\ fpc' = "sleeping"
                   /\ trace' = Traced(trace \o <<EvResponse(s, "", NoPayload),
                                                 EvSleep(Wait202(attempt))>>)
                   /\ UNCHANGED <<fres, attempt, networkAttempts>>
    /\ UNCHANGED <<opts, req, calls, gaVars, coVars>>

\* !res.ok
FetchNotOk ==
    /\ fpc = "fetching"
    /\ \E s \in Statuses :
         /\ ~StillComputing(s)
         /\ ~ResOk(s)
         /\ Settle("thrown", [NoRes EXCEPT !.kind = "ApiError", !.status = s],
                   EvResponse(s, "", NoPayload))
    /\ UNCHANGED <<opts, req, calls, gaVars, coVars>>

\* res.ok and res.json() parses
FetchOk ==
    /\ fpc = "fetching"
    /\ \E s \in Statuses, p \in PayloadsFor(req) :
         /\ ~StillComputing(s)
         /\ ResOk(s)
         /\ Settle("returned", [NoRes EXCEPT !.kind = "ok", !.payload = p],
                   EvResponse(s, "json", p))
    /\ UNCHANGED <<opts, req, calls, gaVars, coVars>>

\* res.ok and res.json() rejects
FetchMalformed ==
    /\ fpc = "fetching"
    /\ \E s \in Statuses :
         /\ ~StillComputing(s)
         /\ ResOk(s)
         /\ Settle("thrown",
                   [NoRes EXCEPT !.kind = "MalformedResponse", !.cause = "parse"],
                   EvResponse(s, "badjson", NoPayload))
    /\ UNCHANGED <<opts, req, calls, gaVars, coVars>>

\* await sleep(...) resolves; continue; attempt++ and the next fetch(...)
SleepDone ==
    /\ fpc = "sleeping"
    /\ attempt' = attempt + 1
    /\ fpc' = "fetching"
    /\ trace' = Traced(Append(trace, EvRequest))
    /\ UNCHANGED <<opts, req, networkAttempts, fres, calls, gaVars, coVars>>

\* one step of the running ghFetch call
ghFetch ==
    \/ FetchTransportError
    \/ Fetch202
    \/ FetchNotOk
    \/ FetchOk
    \/ FetchMalformed
    \/ SleepDone

(***************************************************************************)
(* A single ghFetch call with options drawn from the bounds.               *)
(***************************************************************************)
OptChoices ==
    { [max202 |-> a, maxNetworkRetries |-> b] :
        a \in (-1)..Max202Opt, b \in (-1)..MaxNetOpt }

InitFetch ==
    /\ opts \in { OptsOf(o) : o \in OptChoices }
    /\ req = NoReq
    /\ attempt = 0
    /\ networkAttempts = 0
    /\ fpc = "idle"
    /\ fres = NoRes
    /\ trace = <<>>
    /\ page = 0
    /\ results = <<>>
    /\ apc = "idle"
    /\ ares = NoRes
    /\ received = <<>>
    /\ calls = <<>>
    /\ NoCollector

MainCallsGhFetch ==
    /\ fpc = "idle"
    /\ GhCall(opts, [endpoint |-> "generic", repo |-> 0, page |-> 0])
    /\ UNCHANGED <<gaVars, coVars>>

NextFetch ==
    \/ MainCallsGhFetch
    \/ ghFetch

SpecFetch == InitFetch /\ [][NextFetch]_vars

\* the same call under the scheduling of the event loop: fetch(...) settles
\* (the AbortController timer ends it at the latest) and sleep(...) resolves,
\* and the continuation of the awaiting call then runs
SpecFetchFair == SpecFetch /\ WF_vars(ghFetch)

(***************************************************************************)
(* What a ghFetch call did, read off its trace.                            *)
(***************************************************************************)
Terminal == fpc \in {"returned", "thrown"}

Responses == SelectSeq(trace, LAMBDA e : e.ev = "response")

NumRequests == Len(SelectSeq(trace, LAMBDA e : e.ev = "request"))

Num202 == Len(SelectSeq(Responses, LAMBDA e : e.status = 202))

NumTransport == Len(SelectSeq(Responses, LAMBDA e : e.status = 0))

Only202 == \A i \in 1..Len(Responses) : Responses[i].status = 202

OnlyTransport == \A i \in 1..Len(Responses) : Responses[i].status = 0

(***************************************************************************)
(* ghFetchAll                                                              *)
(***************************************************************************)
\* PageIsLast stopping after every page, full or not
PageIsLastAlways(n) == n <= PageSize

\* if (chunk.length < 100) break
PageIsLast(n) == n < PageSize

\* if (!Array.isArray(chunk) || chunk.length === 0) break
ChunkIsEmpty(c) == ~c.isArray \/ Len(c.items) = 0

\* new Error(`Failed to fetch page ${page} for ${pathBase}: ${err.message}`)
PageError(p, err) ==
    [NoRes EXCEPT !.kind = "PageFailure", !.page = p, !.cause = err.kind]

\* the call ghFetchAll(pathBase, token, o): page 1 is asked for
AllCall(o, endpoint, repo) ==
    /\ page' = 1
    /\ results' = <<>>
    /\ apc' = "awaiting"
    /\ ares' = NoRes
    /\ received' = <<>>
    /\ GhCall(o, [endpoint |-> endpoint, repo |-> repo, page |-> 1])

\* the result of the ghFetch call is taken: its locals are gone, its trace is
\* kept for the calls made outside a collector run
FetchTaken ==
    /\ fpc' = "idle"
    /\ fres' = NoRes
    /\ UNCHANGED <<opts, req, attempt, networkAttempts, trace>>

\* the catch of ghFetchAll ending the listing with what it has
AllPageThrownTruncates ==
    /\ apc = "awaiting"
    /\ fpc = "thrown"
    /\ apc' = "returned"
    /\ FetchTaken
    /\ UNCHANGED <<calls, page, results, ares, received, coVars>>

\* await ghFetch(...) of a page returns a chunk
AllPageReturned ==
    /\ apc = "awaiting"
    /\ fpc = "returned"
    /\ LET chunk == fres.payload IN
       /\ received' = Append(received, chunk)
       /\ ares' = ares
       /\ UNCHANGED coVars
       /\ IF ChunkIsEmpty(chunk)
            THEN /\ apc' = "returned"
                 /\ FetchTaken
                 /\ UNCHANGED <<calls, page, results>>
            ELSE /\ results' = results \o chunk.items
                 /\ IF PageIsLast(Len(chunk.items))
                      THEN /\ apc' = "returned"
                           /\ FetchTaken
                           /\ UNCHANGED <<calls, page>>
                      ELSE /\ page' = page + 1
                           /\ apc' = apc
                           /\ GhCall(opts, [req EXCEPT !.page = page + 1])

\* await ghFetch(...) of a page throws: the catch rethrows with the page number
AllPageThrown ==
    /\ apc = "awaiting"
    /\ fpc = "thrown"
    /\ apc' = "thrown"
    /\ ares' = PageError(page, fres)
    /\ FetchTaken
    /\ UNCHANGED <<calls, page, results, received, coVars>>

\* one step of the running ghFetchAll call
ghFetchAll ==
    \/ AllPageReturned
    \/ AllPageThrown

(***************************************************************************)
(* A single ghFetchAll call, made with no retry options as the collectors  *)
(* make it.                                                                *)
(***************************************************************************)
NoOpts == [max202 |-> -1, maxNetworkRetries |-> -1]

InitFetchAll ==
    /\ opts = OptsOf(NoOpts)
    /\ req = NoReq
    /\ attempt = 0
    /\ networkAttempts = 0
    /\ fpc = "idle"
    /\ fres = NoRes
    /\ trace = <<>>
    /\ page = 0
    /\ results = <<>>
    /\ apc = "idle"
    /\ ares = NoRes
    /\ received = <<>>
    /\ calls = <<>>
    /\ NoCollector

MainCallsGhFetchAll ==
    /\ apc = "idle"
    /\ calls = <<>>
    /\ AllCall(NoOpts, "page", 0)
    /\ UNCHANGED coVars

NextFetchAll ==
    \/ MainCallsGhFetchAll
    \/ ghFetch
    \/ ghFetchAll

SpecFetchAll == InitFetchAll /\ [][NextFetchAll]_vars

(***************************************************************************)
(* scripts/utils/cache.js                                                  *)
(***************************************************************************)
\* readJSON without the try/catch around JSON.parse: what the file holds is
\* returned whenever the file exists
readJSONNoCatch(d, filename, defaultValue) ==
    IF ~d[filename].exists THEN defaultValue ELSE d[filename].val

\* readJSON(filename, defaultValue)
readJSON(d, filename, defaultValue) ==
    IF ~d[filename].exists THEN defaultValue
    ELSE IF d[filename].parseable THEN d[filename].val
    ELSE defaultValue

\* writeJSON(filename, obj): the disk after the call. val is what JSON.parse
\* gives for the text written; obj is given as that JSON value (the objects
\* the collector writes hold finite numbers, strings and booleans only, and
\* are their own JSON value; JSONstringify gives it for the others)
writeJSON(d, filename, obj) ==
    [d EXCEPT ![filename] = [exists |-> TRUE, parseable |-> TRUE, val |-> obj]]

\* prevTotals[k] || 0
OrZero(t, k) == IF k \in DOMAIN t THEN t[k] ELSE 0

\* the loop run over Object.keys(newTotals) alone
detectChangesNewKeysOnly(prevTotals, totals) ==
    \E k \in DOMAIN totals : OrZero(prevTotals, k) # OrZero(totals, k)

\* detectChanges(prevTotals, newTotals)
detectChanges(prevTotals, totals) ==
    \E k \in (DOMAIN prevTotals) \cup (DOMAIN totals) :
        OrZero(prevTotals, k) # OrZero(totals, k)

(***************************************************************************)
(* scripts/fetch_stats.js: helpers                                         *)
(***************************************************************************)
\* Dates are taken apart and put together again by day number: the number of
\* whole days from 1 Jan 1970 UTC to the day a time value lies in
\* (floor(ts / 86400000)); a month is 0..11 as in JavaScript.

\* d.getUTCDay(): 0 (Sun) - 6; 1 Jan 1970 was a Thursday
getUTCDay(dn) == (dn + 4) % 7

\* The calendar arithmetic works in eras of 400 years (146097 days) that
\* start on 1 March: z counts days from 1 Mar 0000, doe is the day of the era,
\* yoe the year of the era, doy the day of the year from 1 March, mp the
\* month from March.
DayOfEra(z) == z - (z \div 146097) * 146097
YearOfEra(doe) ==
    (doe - (doe \div 1460) + (doe \div 36524) - (doe \div 146096)) \div 365
DayOfYear(doe, yoe) == doe - (365 * yoe + (yoe \div 4) - (yoe \div 100))
MonthFromMarch(doy) == (5 * doy + 2) \div 153

CivilOf(era, yoe, doy, mp) ==
    [y |-> yoe + era * 400 + (IF mp >= 10 THEN 1 ELSE 0),
     m |-> IF mp < 10 THEN mp + 2 ELSE mp - 10,
     d |-> doy - ((153 * mp + 2) \div 5) + 1]

CivilOfEraDay(era, doe) ==
    CivilOf(era, YearOfEra(doe), DayOfYear(doe, YearOfEra(doe)),
            MonthFromMarch(DayOfYear(doe, YearOfEra(doe))))

\* d.getUTCFullYear(), d.getUTCMonth(), d.getUTCDate() of a day number
\* (proleptic Gregorian calendar)
CivilFromDays(dn) ==
    CivilOfEraDay((dn + 719468) \div 146097, DayOfEra(dn + 719468))

\* the day number of day d of the month mp from March of year yy from March
DaysFromMarch(yy, mp, d) ==
    (yy \div 400) * 146097
    + (yy - (yy \div 400) * 400) * 365
    + ((yy - (yy \div 400) * 400) \div 4)
    - ((yy - (yy \div 400) * 400) \div 100)
    + ((153 * mp + 2) \div 5) + d - 1
    - 719468

\* the day number of year y, month m (0..11), day d
DaysFromCivil(y, m, d) ==
    IF m >= 2 THEN DaysFromMarch(y, m - 2, d) ELSE DaysFromMarch(y - 1, m + 10, d)

\* Date.UTC(year, month, day), as a day number: a year 0..99 stands for
\* 1900 + year
DateUTC(y, m, d) == DaysFromCivil(IF y \in 0..99 THEN 1900 + y ELSE y, m, d)

\* weekStartUnix with the day of the week counted from Monday
WeekStartDayFromMonday(dn) ==
    DateUTC(CivilFromDays(dn).y, CivilFromDays(dn).m, CivilFromDays(dn).d)
    - ((getUTCDay(dn) + 6) % 7)

\* weekStartUnix, in days: the day number of start for a time value on day dn
WeekStartDay(dn) ==
    DateUTC(CivilFromDays(dn).y, CivilFromDays(dn).m, CivilFromDays(dn).d)
    - getUTCDay(dn)

\* weekStartUnix(ts): ts in ms, the result in s
weekStartUnix(ts) == (WeekStartDay(ts \div DayMs) * DayMs) \div 1000

\* the loop over commits with counts.set(wk, 1): a week's count is not added to
RECURSIVE CountWeeksLastWins(_, _)
CountWeeksLastWins(commits, counts) ==
    IF commits = <<>> THEN counts
    ELSE LET c == Head(commits) IN
         IF c.date = -1 THEN CountWeeksLastWins(Tail(commits), counts)
         ELSE CountWeeksLastWins(Tail(commits),
                                 (weekStartUnix(c.date) :> 1) @@ counts)

\* the Map counts of countCommitsPerWeek after the loop over commits
RECURSIVE CountWeeks(_, _)
CountWeeks(commits, counts) ==
    IF commits = <<>> THEN counts
    ELSE LET c == Head(commits) IN
         IF c.date = -1 THEN CountWeeks(Tail(commits), counts)
         ELSE LET wk == weekStartUnix(c.date) IN
              CountWeeks(Tail(commits),
                         (wk :> (OrZero(counts, wk) + 1)) @@ counts)

\* .sort((a,b) => a.w - b.w) over the keys of counts
RECURSIVE SortedKeys(_)
SortedKeys(S) ==
    IF S = {} THEN <<>>
    ELSE LET m == CHOOSE x \in S : \A y \in S : x <= y
         IN  <<m>> \o SortedKeys(S \ {m})

RECURSIVE SumC(_)
SumC(weeks) == IF weeks = <<>> THEN 0 ELSE Head(weeks).c + SumC(Tail(weeks))

\* countCommitsPerWeek, given the commits ghFetchAll returned
countCommitsPerWeek(commits) ==
    LET counts == CountWeeks(commits, <<>>)
        keys == SortedKeys(DOMAIN counts)
        arr == [i \in 1..Len(keys) |-> [w |-> keys[i], c |-> counts[keys[i]]]]
    IN  [total |-> SumC(arr), weeks |-> arr]

\* contribs.find(c => c.author && c.author.login === USERNAME)
RECURSIVE FindMe(_)
FindMe(contribs) ==
    IF contribs = <<>> THEN NoMe
    ELSE IF Head(contribs).login = USERNAME
      THEN [found |-> TRUE, total |-> Head(contribs).total,
            weeks |-> Head(contribs).weeks,
            weeksIsArray |-> Head(contribs).weeksIsArray]
      ELSE FindMe(Tail(contribs))

\* Array.isArray(contributors) ? contributors.find(...) : null
MeOf(payload) == IF payload.isArray THEN FindMe(payload.items) ELSE NoMe

\* if (me): a contributor record is used whatever its weeks are
FastPathUsableLoose(m) == m.found

\* fallback collector: if (me && Array.isArray(me.weeks))
FastPathUsable(m) == m.found /\ m.weeksIsArray

\* if (total >= 0): a listing without commits is stored too
FallbackHasCommitsOrNone(total) == total >= 0

\* fallback collector: if (total > 0)
FallbackHasCommits(total) == total > 0

\* an entry whose totalCommits is counted from its weeks
EntrySummingWeeks(repo, total, weeks, l) ==
    [private |-> repo.private, totalCommits |-> SumC(weeks), weeks |-> weeks,
     languages |-> l]

\* { private: !!repo.private, totalCommits, weeks, languages: langs || {} }
Entry(repo, total, weeks, l) ==
    [private |-> repo.private, totalCommits |-> total, weeks |-> weeks,
     languages |-> l]

\* obj[key] = value
Put(obj, key, value) == (key :> value) @@ obj

\* the first position at or after from that holds a repository not archived
RECURSIVE NextLive(_, _)
NextLive(list, from) ==
    IF from > Len(list) THEN from
    ELSE IF list[from].archived THEN NextLive(list, from + 1)
    ELSE from

\* if (elapsed() >= GLOBAL_TIMEOUT_MS): the budget itself stops the loop
OverBudgetAtLimit(ms) == ms >= GlobalTimeoutMs

\* if (elapsed() > GLOBAL_TIMEOUT_MS)
OverBudget(ms) == ms > GlobalTimeoutMs

\* err.message of the errors ghFetch and ghFetchAll throw, as its parts
ErrMessage(err) ==
    CASE err.kind = "NetworkFailure" ->
           <<"Request to", "url", "failed after", "network attempts", err.cause>>
      [] err.kind = "StatsNotReady" ->
           <<"GitHub returned 202 repeatedly for", "url", "attempt", "Last response", "">>
      [] err.kind = "ApiError" ->
           <<"GitHub API error", "status", "for", "url", "body">>
      [] err.kind = "MalformedResponse" ->
           <<"Failed to parse JSON from", "url", err.cause>>
      [] err.kind = "PageFailure" ->
           <<"Failed to fetch page", "for", "pathBase", err.cause>>
      [] OTHER -> <<>>

\* err && err.message && err.message.includes(part)
MessageIncludes(err, part) ==
    \E i \in 1..Len(ErrMessage(err)) : ErrMessage(err)[i] = part

\* what the run prints for the repository at position idx: the line of the
\* statistics step, the error it names and the request that threw it, whether
\* a contributor record of USERNAME was found and whether its weeks are an
\* array; then the outcome of the commit listing
LogStats(line, err, at, m) ==
    [i |-> idx, line |-> line, err |-> err, at |-> at, found |-> m.found,
     weeksOk |-> m.weeksIsArray, fb |-> "none", fbTotal |-> 0]

LogFallback(log, outcome, total) ==
    [log EXCEPT !.fb = outcome, !.fbTotal = total]

\* the values the variables of ghFetch / ghFetchAll hold when no call runs
FetchIdle ==
    /\ opts' = OptsOf(NoOpts)
    /\ req' = NoReq
    /\ attempt' = 0
    /\ networkAttempts' = 0
    /\ fpc' = "idle"
    /\ fres' = NoRes
    /\ trace' = <<>>

AllIdle ==
    /\ page' = 0
    /\ results' = <<>>
    /\ apc' = "idle"
    /\ ares' = NoRes
    /\ received' = <<>>

(***************************************************************************)
(* scripts/fetch_stats.js: the run                                         *)
(***************************************************************************)
\* the name readJSON is given for the previous totals
OutLastRead == IF version = "fallback" THEN "data/last_totals.json"
               ELSE "last_totals.json"

\* process.exit(code) of the top-level catch
FatalCode == IF version = "fallback" THEN 1 ELSE 2

\* the cache written on top of the entries the file held
PersistMerging(cache, totals) ==
    LET prevTotals == readJSON(disk, OutLastRead, <<>>) IN
    /\ disk' = writeJSON(writeJSON(disk, "stats_cache.json",
                                   cache @@ readJSON(disk, "stats_cache.json", <<>>)),
                         "last_totals.json", totals)
    /\ writes' = writes \o <<"stats_cache.json", "last_totals.json">>
    /\ changeLog' = IF detectChanges(prevTotals, totals) THEN "changed"
                    ELSE "nochange"
    /\ cpc' = "done"
    /\ exitCode' = 0

\* after the loop: readJSON, writeJSON twice, detectChanges; the process ends
Persist(cache, totals) ==
    LET prevTotals == readJSON(disk, OutLastRead, <<>>) IN
    /\ disk' = writeJSON(writeJSON(disk, "stats_cache.json", cache),
                         "last_totals.json", totals)
    /\ writes' = writes \o <<"stats_cache.json", "last_totals.json">>
    /\ changeLog' = IF detectChanges(prevTotals, totals) THEN "changed"
                    ELSE "nochange"
    /\ cpc' = "done"
    /\ exitCode' = 0

\* the options of the first request made for a repository
FirstRequest ==
    IF version = "fallback"
      THEN [stage |-> "langs", endpoint |-> "languages", o |-> NoOpts]
      ELSE [stage |-> "stats", endpoint |-> "stats",
            o |-> [max202 |-> StatsMax202Budget, maxNetworkRetries |-> -1]]

\* what elapsed() may return: the budget exactly, or more than the budget
ElapsedValues == {GlobalTimeoutMs, GlobalTimeoutMs + 1}

\* the for...of loop from position from on, up to its next await or its end;
\* the iterations run are those of the archived repositories from from on and
\* of the first one not archived; r[p] is what elapsed() returns in the
\* iteration of position p of the budget-guarded loop, which breaks at the
\* first position whose reading is over the budget
LoopFrom(list, from, cache, totals, r) ==
    LET j == NextLive(list, from)
        polled == version = "budget" /\ DOMAIN r # {}
        overAt == {p \in DOMAIN r : OverBudget(r[p])}
        over == polled /\ overAt # {}
        stop == CHOOSE p \in overAt : \A q \in overAt : p <= q
    IN  /\ elapsedMs' = IF over THEN r[stop]
                        ELSE IF polled THEN r[Min(j, Len(list))]
                        ELSE elapsedMs
        /\ newCache' = cache
        /\ newTotals' = totals
        /\ langs' = <<>>
        /\ me' = NoMe
        /\ AllIdle
        /\ IF over \/ j > Len(list)
             THEN /\ Persist(cache, totals)
                  /\ idx' = IF over THEN stop ELSE j
                  /\ processed' = processed
                  /\ FetchIdle
                  /\ calls' = calls
             ELSE /\ idx' = j
                  /\ processed' = processed + 1
                  /\ cpc' = FirstRequest.stage
                  /\ GhCall(FirstRequest.o,
                            [endpoint |-> FirstRequest.endpoint, repo |-> j, page |-> 0])
                  /\ UNCHANGED <<disk, writes, changeLog, exitCode>>

ContinueLoop(list, from, cache, totals) ==
    \E r \in [from..Min(NextLive(list, from), Len(list)) -> ElapsedValues] :
       LoopFrom(list, from, cache, totals, r)

Ages == {0, MaxCacheAgeMs - 1, MaxCacheAgeMs, MaxCacheAgeMs + 1}

\* if (ageMs <= MAX_CACHE_AGE_MS): a cache of exactly the maximal age is fresh
CacheIsFreshAtLimit(ageMs) == ageMs <= MaxCacheAgeMs

\* if (ageMs < MAX_CACHE_AGE_MS)
CacheIsFresh(ageMs) == ageMs < MaxCacheAgeMs

\* the guard lets the run go on to the call of ghFetchAll for the repositories
Proceed ==
    /\ cpc' = "discover"
    /\ exitCode' = exitCode
    /\ AllCall(NoOpts, "repos", 0)

\* process.exit(code) before any request
ExitAtStart(code) ==
    /\ cpc' = "exit"
    /\ exitCode' = code
    /\ UNCHANGED <<gfVars, gaVars, calls>>

\* the synchronous start: the GH_PAT check, the cache-first guard (existsSync,
\* statSync, which may throw, and the age test), and the call of ghFetchAll
\* for the repository list
Startup ==
    /\ cpc = "start"
    /\ IF ~token
         THEN /\ ExitAtStart(1)
              /\ guard' = guard
         ELSE IF ~disk["stats_cache.json"].exists
           THEN /\ guard' = [seen |-> "absent", ageMs |-> 0]
                /\ Proceed
           ELSE \E statThrows \in BOOLEAN :
                  IF statThrows
                    THEN /\ guard' = [seen |-> "failed", ageMs |-> 0]
                         /\ Proceed
                    ELSE \E ageMs \in Ages :
                           /\ guard' = [seen |-> "aged", ageMs |-> ageMs]
                           /\ IF CacheIsFresh(ageMs) THEN ExitAtStart(0) ELSE Proceed
    /\ UNCHANGED <<arg, ret, stored, version, token, repoList, idx, processed, langs, me, newCache,
                   newTotals, disk, writes, elapsedMs, statsLog, changeLog>>

\* await ghFetchAll('/user/repos...') returns: the loop starts
DiscoverReturned ==
    /\ cpc = "discover"
    /\ apc = "returned"
    /\ repoList' = results
    /\ ContinueLoop(results, 1, <<>>, <<>>)
    /\ UNCHANGED <<arg, ret, stored, version, token, guard, statsLog>>

\* await ghFetchAll('/user/repos...') throws: the top-level catch
DiscoverThrown ==
    /\ cpc = "discover"
    /\ apc = "thrown"
    /\ cpc' = "exit"
    /\ exitCode' = FatalCode
    /\ FetchIdle
    /\ AllIdle
    /\ UNCHANGED <<calls, arg, ret, stored, version, token, guard, repoList, idx, processed, langs, me,
                   newCache, newTotals, disk, writes, elapsedMs, statsLog, changeLog>>

-----------------------------------------------------------------------------
\* the fallback collector

\* ghFetch(.../languages) not awaited: the statistics request is issued while
\* the languages request runs
FLangsNotAwaited ==
    /\ version = "fallback"
    /\ cpc = "langs"
    /\ fpc # "idle"
    /\ langs' = IF fpc = "returned" THEN fres.payload.obj ELSE <<>>
    /\ cpc' = "stats"
    /\ GhCall([max202 |-> StatsMax202Fallback, maxNetworkRetries |-> -1],
              [endpoint |-> "stats", repo |-> idx, page |-> 0])
    /\ UNCHANGED <<gaVars, arg, ret, stored, version, token, guard, exitCode, repoList, idx, processed, me,
                   newCache, newTotals, disk, writes, elapsedMs, statsLog, changeLog>>

\* await ghFetch(.../languages) settles; the catch leaves langs = {}; then the
\* statistics request
FLangsSettled ==
    /\ version = "fallback"
    /\ cpc = "langs"
    /\ Terminal
    /\ langs' = IF fpc = "returned" THEN fres.payload.obj ELSE <<>>
    /\ cpc' = "stats"
    /\ GhCall([max202 |-> StatsMax202Fallback, maxNetworkRetries |-> -1],
              [endpoint |-> "stats", repo |-> idx, page |-> 0])
    /\ UNCHANGED <<gaVars, arg, ret, stored, version, token, guard, exitCode, repoList, idx, processed, me,
                   newCache, newTotals, disk, writes, elapsedMs, statsLog, changeLog>>

\* the call countCommitsPerWeek(...) up to its await ghFetchAll(...)
FallbackCall ==
    /\ cpc' = "commits"
    /\ AllCall(NoOpts, "commits", idx)
    /\ UNCHANGED <<arg, ret, stored, version, token, guard, exitCode, repoList, idx, processed, langs, me,
                   newCache, newTotals, disk, writes, elapsedMs, changeLog>>

\* await ghFetch(.../stats/contributors) returns
FStatsReturned ==
    /\ version = "fallback"
    /\ cpc = "stats"
    /\ fpc = "returned"
    /\ LET m == MeOf(fres.payload)
           repo == repoList[idx]
       IN  IF FastPathUsable(m)
             THEN /\ statsLog' = LogStats("used", "none", "none", m)
                  /\ ContinueLoop(repoList, idx + 1,
                       Put(newCache, repo.full_name, Entry(repo, m.total, m.weeks, langs)),
                       Put(newTotals, repo.full_name, m.total))
                  /\ UNCHANGED <<arg, ret, stored, version, token, guard, repoList>>
             ELSE /\ statsLog' =
                        LogStats(IF fres.payload.isArray THEN "no contributor record"
                                 ELSE "non-array", "none", "none", m)
                  /\ FallbackCall

\* await ghFetch(.../stats/contributors) throws: the catch falls through
FStatsThrown ==
    /\ version = "fallback"
    /\ cpc = "stats"
    /\ fpc = "thrown"
    /\ statsLog' = LogStats("not usable", fres.kind, req.endpoint, NoMe)
    /\ FallbackCall

\* await ghFetchAll(.../commits) returns inside countCommitsPerWeek
FCommitsReturned ==
    /\ version = "fallback"
    /\ cpc = "commits"
    /\ apc = "returned"
    /\ LET r == countCommitsPerWeek(results)
           repo == repoList[idx]
       IN  /\ statsLog' = LogFallback(statsLog, "returned", r.total)
           /\ IF FallbackHasCommits(r.total)
                THEN ContinueLoop(repoList, idx + 1,
                       Put(newCache, repo.full_name, Entry(repo, r.total, r.weeks, langs)),
                       Put(newTotals, repo.full_name, r.total))
                ELSE ContinueLoop(repoList, idx + 1, newCache, newTotals)
    /\ UNCHANGED <<arg, ret, stored, version, token, guard, repoList>>

\* the error of the commit listing reaching the top-level catch
FCommitsThrownAborts ==
    /\ version = "fallback"
    /\ cpc = "commits"
    /\ apc = "thrown"
    /\ cpc' = "exit"
    /\ exitCode' = FatalCode
    /\ FetchIdle
    /\ AllIdle
    /\ UNCHANGED <<calls, arg, ret, stored, version, token, guard, repoList, idx, processed, langs, me,
                   newCache, newTotals, disk, writes, elapsedMs, statsLog, changeLog>>

\* await ghFetchAll(.../commits) throws: the catch skips the repository
FCommitsThrown ==
    /\ version = "fallback"
    /\ cpc = "commits"
    /\ apc = "thrown"
    /\ statsLog' = LogFallback(statsLog, "failed", 0)
    /\ ContinueLoop(repoList, idx + 1, newCache, newTotals)
    /\ UNCHANGED <<arg, ret, stored, version, token, guard, repoList>>

-----------------------------------------------------------------------------
\* the budget-guarded collector

\* await ghFetch(.../stats/contributors) returns; then the languages request
BStatsReturned ==
    /\ version = "budget"
    /\ cpc = "stats"
    /\ fpc = "returned"
    /\ me' = MeOf(fres.payload)
    /\ cpc' = "langs"
    /\ GhCall(NoOpts, [endpoint |-> "languages", repo |-> idx, page |-> 0])
    /\ UNCHANGED <<gaVars, arg, ret, stored, version, token, guard, exitCode, repoList, idx, processed, langs,
                   newCache, newTotals, disk, writes, elapsedMs, statsLog, changeLog>>

\* the catch of the per-repository try: log and continue
BCatch ==
    /\ statsLog' =
          LogStats(IF MessageIncludes(fres, "GH_STATS_202") THEN "stats not ready"
                   ELSE "error processing", fres.kind, req.endpoint, me)
    /\ ContinueLoop(repoList, idx + 1, newCache, newTotals)
    /\ UNCHANGED <<arg, ret, stored, version, token, guard, repoList>>

\* await ghFetch(.../stats/contributors) throws
BStatsThrown ==
    /\ version = "budget"
    /\ cpc = "stats"
    /\ fpc = "thrown"
    /\ BCatch

\* await ghFetch(.../languages) returns
BLangsReturned ==
    /\ version = "budget"
    /\ cpc = "langs"
    /\ fpc = "returned"
    /\ LET repo == repoList[idx]
           weeks == IF me.weeksIsArray THEN me.weeks ELSE <<>>
       IN  IF me.found
             THEN /\ statsLog' = LogStats("processed", "none", "none", me)
                  /\ ContinueLoop(repoList, idx + 1,
                       Put(newCache, repo.full_name,
                           Entry(repo, me.total, weeks, fres.payload.obj)),
                       Put(newTotals, repo.full_name, me.total))
             ELSE /\ statsLog' =
                                     LogStats("no contributions", "none", "none", me)
                  /\ ContinueLoop(repoList, idx + 1, newCache, newTotals)
    /\ UNCHANGED <<arg, ret, stored, version, token, guard, repoList>>

\* await ghFetch(.../languages) throws
BLangsThrown ==
    /\ version = "budget"
    /\ cpc = "langs"
    /\ fpc = "thrown"
    /\ BCatch

-----------------------------------------------------------------------------
\* the files of data/ a run may find: none, or those of an earlier run
OldTotals == ("o/r1" :> 3) @@ ("o/r9" :> 7)

OldCache ==
    ("o/r1" :> [private |-> FALSE, totalCommits |-> 3,
                weeks |-> <<[w |-> Sunday1, c |-> 3]>>, languages |-> <<>>])
    @@ ("o/r9" :> [private |-> TRUE, totalCommits |-> 7,
                   weeks |-> <<[w |-> Sunday2, c |-> 7]>>, languages |-> <<>>])

Disks ==
    { [f \in Files |-> NoFile],
      [f \in Files |->
         IF f = "stats_cache.json"
           THEN [exists |-> TRUE, parseable |-> TRUE, val |-> OldCache]
         ELSE IF f = "last_totals.json"
           THEN [exists |-> TRUE, parseable |-> TRUE, val |-> OldTotals]
         ELSE NoFile] }

InitCollect ==
    /\ opts = OptsOf(NoOpts)
    /\ req = NoReq
    /\ attempt = 0
    /\ networkAttempts = 0
    /\ fpc = "idle"
    /\ fres = NoRes
    /\ trace = <<>>
    /\ page = 0
    /\ results = <<>>
    /\ apc = "idle"
    /\ ares = NoRes
    /\ received = <<>>
    /\ calls = <<>>
    /\ version \in {"fallback", "budget"}
    /\ token \in BOOLEAN
    /\ arg = NoArg
    /\ ret = NoRet
    /\ stored = <<>>
    /\ guard = NoGuard
    /\ cpc = "start"
    /\ exitCode = -1
    /\ repoList = <<>>
    /\ idx = 0
    /\ processed = 0
    /\ langs = <<>>
    /\ me = NoMe
    /\ newCache = <<>>
    /\ newTotals = <<>>
    /\ disk \in Disks
    /\ writes = <<>>
    /\ elapsedMs = 0
    /\ statsLog = NoLog
    /\ changeLog = "none"

\* the steps of ghFetchAll inside a collector run
ghFetchAllSteps ==
    /\ cpc \in {"discover", "commits"}
    /\ ghFetchAll

NextCollect ==
    \/ Startup
    \/ DiscoverReturned
    \/ DiscoverThrown
    \/ ghFetch
    \/ ghFetchAllSteps
    \/ FLangsSettled
    \/ FStatsReturned
    \/ FStatsThrown
    \/ FCommitsReturned
    \/ FCommitsThrown
    \/ BStatsReturned
    \/ BStatsThrown
    \/ BLangsReturned
    \/ BLangsThrown

SpecCollect == InitCollect /\ [][NextCollect]_vars

\* C1: a call that sees nothing but 202 responses retries max202 times: it
\* issues max202 + 1 requests, each 202 but the last followed by a retry, and
\* the last one makes it throw the error with code GH_STATS_202.
C1_Only202FailsAfterMax202Retries ==
    (fpc # "idle" /\ Only202) =>
        /\ Num202 <= opts.max202 + 1
        /\ (Num202 = opts.max202 + 1) = (fpc = "thrown")
        /\ fpc # "returned"
        /\ fpc = "thrown" =>
             /\ NumRequests = opts.max202 + 1
             /\ fres.kind = "StatsNotReady"
             /\ fres.code = "GH_STATS_202"

C1_Witness ==
    /\ fpc = "thrown"
    /\ Only202
    /\ opts.max202 = 2
    /\ NumRequests = 3
    /\ fres.code = "GH_STATS_202"

\* C2: the two retry budgets are independent: a call gives up on 202 only
\* at its (max202 + 1)-th 202 response and gives up on transport failures
\* only at its (maxNetworkRetries + 1)-th transport failure, whatever else
\* was retried before in the same call.
C2_IndependentBudgets ==
    /\ fres.kind = "StatsNotReady" => Num202 = opts.max202 + 1
    /\ fres.kind = "NetworkFailure" => NumTransport = opts.maxNetworkRetries + 1

\* C3: a call whose every attempt fails at transport level issues
\* maxNetworkRetries + 1 requests, sleeps the backoff before each retry, and
\* throws the network failure naming maxNetworkRetries + 1 attempts and the
\* last error.
C3_OnlyTransportFailsAfterMaxRetries ==
    (fpc # "idle" /\ OnlyTransport) =>
        /\ NumTransport <= opts.maxNetworkRetries + 1
        /\ (NumTransport = opts.maxNetworkRetries + 1) = (fpc = "thrown")
        /\ fpc # "returned"
        /\ \A i \in 2..Len(trace) :
             trace[i].ev = "request" =>
                /\ trace[i - 1].ev = "sleep"
                /\ trace[i - 1].ms =
                     NetworkBackoffBase * Pow(2, Len(SelectSeq(SubSeq(trace, 1, i),
                                             LAMBDA e : e.ev = "request")) - 2)
        /\ fpc = "thrown" =>
             /\ NumRequests = opts.maxNetworkRetries + 1
             /\ fres.kind = "NetworkFailure"
             /\ fres.attempts = opts.maxNetworkRetries + 1
             /\ fres.cause = Responses[Len(Responses)].out

C3_Witness ==
    /\ fpc = "thrown"
    /\ OnlyTransport
    /\ opts.maxNetworkRetries = 2
    /\ NumRequests = 3
    /\ fres.kind = "NetworkFailure"

\* C4: a response whose status is neither 202 nor a success status ends the
\* call at once with an ApiError carrying that status: nothing follows the
\* response in the call, whatever was retried before it.
C4_ErrorStatusFailsImmediately ==
    \A i \in 1..Len(trace) :
        (/\ trace[i].ev = "response"
         /\ trace[i].status \notin {0, 202}
         /\ ~(trace[i].status >= 200 /\ trace[i].status <= 299)) =>
            /\ i = Len(trace)
            /\ fpc = "thrown"
            /\ fres.kind = "ApiError"
            /\ fres.status = trace[i].status

C4_Witness ==
    /\ fpc = "thrown"
    /\ fres.kind = "ApiError"
    /\ fres.status = 404
    /\ Num202 = 1
    /\ NumTransport = 1
    /\ opts.max202 = 3
    /\ opts.maxNetworkRetries = 2

\* C5: without transport failures, k 202 responses (1 <= k <= max202) are
\* each retried, and a parseable success that follows them makes the call
\* return that response's body after k + 1 requests.
C5_SuccessAfter202s ==
    (fpc # "idle" /\ NumTransport = 0 /\ Num202 >= 1 /\ Num202 <= opts.max202) =>
        LET last == Responses[Len(Responses)] IN
        /\ last.status = 202 => fpc \in {"sleeping", "fetching"}
        /\ (ResOk(last.status) /\ last.status # 202 /\ last.out = "json") =>
             /\ fpc = "returned"
             /\ fres.kind = "ok"
             /\ fres.payload = last.body
             /\ NumRequests = Num202 + 1

C5_Witness ==
    /\ fpc = "returned"
    /\ NumTransport = 0
    /\ Num202 = 2
    /\ opts.max202 = 2
    /\ fres.payload.obj = "p2"
    /\ NumRequests = 3

(***************************************************************************)
(* What a ghFetchAll call did.                                             *)
(***************************************************************************)
RECURSIVE Flatten(_)
Flatten(chunks) ==
    IF chunks = <<>> THEN <<>>
    ELSE (IF Head(chunks).isArray THEN Head(chunks).items ELSE <<>>)
         \o Flatten(Tail(chunks))

Sizes == [i \in 1..Len(received) |-> Len(received[i].items)]

OnlyArrays == \A i \in 1..Len(received) : received[i].isArray

\* C6: ghFetchAll asks for pages 1, 2, 3, ... in order; the first page with
\* fewer than 100 items (an empty one included) is the last page asked for,
\* and the result is the pages received, concatenated in page order.
C6_PagesInOrderUntilShortPage ==
    (apc # "idle" /\ OnlyArrays) =>
        /\ \A i \in 1..Len(calls) : calls[i].page = i
        /\ \A i \in 1..Len(received) :
             Sizes[i] < PageSize =>
                /\ i = Len(received)
                /\ Len(calls) = i
                /\ apc = "returned"
        /\ apc = "returned" =>
             /\ results = Flatten(received)
             /\ Len(calls) = Len(received)
             /\ Sizes[Len(received)] < PageSize
        /\ Sizes = <<100, 100, 40>> => (Len(results) = 240 /\ Len(calls) = 3)
        /\ Sizes = <<100, 0>> => (Len(results) = 100 /\ Len(calls) = 2)

C6_Witness ==
    /\ apc = "returned"
    /\ Sizes = <<100, 100, 40>>
    /\ Len(results) = 240
    /\ results[240] = <<3, 40>>
    /\ Len(calls) = 3

\* C7: when the fetch of page p throws, ghFetchAll throws an error naming
\* page p, p is the last page it asked for, and a call that returns a result
\* has had every one of its page fetches return.
C7_PageFailureFailsAtOnce ==
    /\ apc = "thrown" =>
         /\ ares.kind = "PageFailure"
         /\ ares.page = Len(calls)
         /\ calls[Len(calls)].page = ares.page
         /\ ares.cause \in {"NetworkFailure", "StatsNotReady", "ApiError",
                            "MalformedResponse"}
         /\ Len(received) = Len(calls) - 1
    /\ apc = "returned" =>
         /\ ares.kind = "none"
         /\ Len(received) = Len(calls)
         /\ \A i \in 1..Len(received) :
              Responses # <<>> /\ i = Len(received) =>
                 received[i] = Responses[Len(Responses)].body

C7_Witness ==
    /\ apc = "thrown"
    /\ ares.page = 2
    /\ Len(results) = 100
    /\ ares.cause = "ApiError"

(***************************************************************************)
(* Observers of a collector run                                            *)
(***************************************************************************)
\* a request of kind e was issued for the repository at position i
HasCall(i, e) == \E k \in 1..Len(calls) : calls[k].repo = i /\ calls[k].endpoint = e

\* some per-repository request was issued
PerRepoCalls == \E k \in 1..Len(calls) : calls[k].repo # 0

\* the positions of the repositories that are not archived
Live == {i \in 1..Len(repoList) : ~repoList[i].archived}

\* the loop is between two per-repository awaits
InLoop == cpc \in {"langs", "stats", "commits"}

\* the request the loop awaits has settled
Settled ==
    \/ cpc \in {"langs", "stats"} /\ Terminal
    \/ cpc = "commits" /\ apc \in {"returned", "thrown"}

\* the request the loop awaits is in flight
InFlight ==
    \/ fpc \in {"fetching", "sleeping"}
    \/ cpc = "commits" /\ apc = "awaiting" /\ Terminal

\* the guards of the continuations of the loop: one of them takes the result,
\* returned or thrown, of the request awaited
ResumeGuard ==
    \/ version = "fallback" /\ cpc \in {"langs", "stats"} /\ Terminal
    \/ version = "fallback" /\ cpc = "commits" /\ apc \in {"returned", "thrown"}
    \/ version = "budget" /\ cpc \in {"stats", "langs"} /\ Terminal

\* the loop left by the break of the budget check
StoppedByBudget == version = "budget" /\ OverBudget(elapsedMs)

\* the files as the run wrote them
WrittenCache == disk["stats_cache.json"].val
WrittenTotals == disk["last_totals.json"].val

InCache(i) == RepoName(i) \in DOMAIN WrittenCache
InTotals(i) == RepoName(i) \in DOMAIN WrittenTotals

\* the loop is at a repository not archived whose first request was issued, or
\* the run has ended having written what it collected, the loop left at the
\* end of the list or by the budget check
MovedOn ==
    \/ /\ InLoop
       /\ idx \in Live
       /\ HasCall(idx, FirstRequest.endpoint)
    \/ /\ cpc = "done"
       /\ exitCode = 0
       /\ writes = <<"stats_cache.json", "last_totals.json">>
       /\ WrittenCache = newCache
       /\ WrittenTotals = newTotals
       /\ idx = Len(repoList) + 1 \/ StoppedByBudget

\* a step leaves the entries of every repository but the one at hand as they
\* are: what a repository's handling stored, or did not store, is what the run
\* writes
EntriesKept ==
    /\ \A k \in (DOMAIN newCache) \cup (DOMAIN newCache') :
         k # RepoName(idx) =>
           k \in DOMAIN newCache /\ k \in DOMAIN newCache' /\ newCache'[k] = newCache[k]
    /\ \A k \in (DOMAIN newTotals) \cup (DOMAIN newTotals') :
         k # RepoName(idx) =>
           k \in DOMAIN newTotals /\ k \in DOMAIN newTotals' /\ newTotals'[k] = newTotals[k]

\* C8: once per-repository requests are being made, no outcome of any of them
\* ends the run with a failure exit: the awaited request is in flight or has
\* settled with a result, returned or thrown, that the loop resumes from, every
\* repository not archived that the loop has passed had its first request
\* issued, the loop stops early only by the budget check of the budget-guarded
\* collector, and the run ends with exit code 0 having written
\* stats_cache.json and then last_totals.json with the entries it collected.
C8_NoRepoFailureAbortsRun ==
    /\ PerRepoCalls => cpc # "exit" /\ exitCode \in {-1, 0}
    /\ InLoop =>
         /\ Settled \/ InFlight
         /\ Settled => ResumeGuard
         /\ MovedOn
         /\ \A i \in Live : i <= idx => HasCall(i, FirstRequest.endpoint)
    /\ cpc = "done" =>
         /\ MovedOn
         /\ \A i \in Live : i < idx => HasCall(i, FirstRequest.endpoint)

\* C8 witness: a finished run of the fallback collector over two repositories:
\* the first got no entry after its commits were listed, the statistics request
\* and the commit listing of the second both failed, and both files are written.
C8_Witness ==
    /\ cpc = "done"
    /\ version = "fallback"
    /\ Live = {1, 2}
    /\ HasCall(1, "commits")
    /\ ~InCache(1)
    /\ statsLog.i = 2
    /\ statsLog.err = "NetworkFailure"
    /\ statsLog.fb = "failed"
    /\ ~InCache(2)
    /\ writes = <<"stats_cache.json", "last_totals.json">>

\* the statistics request of the repository last printed about threw an error
\* other than the exhausted 202 budget
StatsFailedNon202 ==
    /\ statsLog.i > 0
    /\ statsLog.at = "stats"
    /\ statsLog.err \in {"NetworkFailure", "ApiError", "MalformedResponse"}

Collected(i) == RepoName(i) \in DOMAIN newCache
Totalled(i) == RepoName(i) \in DOMAIN newTotals

C9_AfterFailure ==
    StatsFailedNon202 =>
      LET i == statsLog.i
          n == RepoName(i)
      IN  /\ version = "budget" =>
               /\ ~Collected(i)
               /\ ~Totalled(i)
               /\ idx > i
          /\ version = "fallback" =>
               /\ Collected(i) <=> (statsLog.fb = "returned" /\ statsLog.fbTotal > 0)
               /\ Totalled(i) <=> Collected(i)
               /\ Collected(i) =>
                    /\ newCache[n].totalCommits = statsLog.fbTotal
                    /\ newTotals[n] = statsLog.fbTotal
               /\ idx > i <=> statsLog.fb # "none"
          /\ idx > i => MovedOn

FastPathStored ==
    statsLog.err = "none" /\ statsLog.found /\ statsLog.weeksOk

\* the requests come repository by repository; a commit listing follows the
\* statistics request of its repository, which follows the languages request
CallsInOrder ==
    \A l \in 1..Len(calls) :
       /\ calls[l].repo <= idx
       /\ l > 1 => calls[l - 1].repo <= calls[l].repo
       /\ calls[l].endpoint = "commits" =>
            /\ l > 1
            /\ calls[l - 1].repo = calls[l].repo
            /\ calls[l - 1].endpoint \in {"stats", "commits"}
       /\ calls[l].endpoint = "stats" =>
            /\ l > 1
            /\ calls[l - 1].repo = calls[l].repo
            /\ calls[l - 1].endpoint = "languages"

\* while the statistics request of the repository at hand has not finished, no
\* commit listing was asked for it
NoFallbackBeforeStatsFinish ==
    (InLoop /\ statsLog.i # idx) =>
       /\ cpc \in {"langs", "stats"}
       /\ ~HasCall(idx, "commits")

C11_NoZeroEntries ==
    /\ \A k \in DOMAIN newCache : newCache[k].totalCommits > 0
    /\ \A k \in DOMAIN newTotals : newTotals[k] > 0
    /\ cpc = "done" =>
         /\ \A k \in DOMAIN WrittenCache : WrittenCache[k].totalCommits > 0
         /\ \A k \in DOMAIN WrittenTotals : WrittenTotals[k] > 0

\* the languages request of the repository at hand has thrown
LangsThrown == cpc = "langs" /\ fpc = "thrown"

\* a step of the loop resuming from a languages request that threw keeps the
\* repository: the fallback collector goes on to the statistics request with
\* an empty mapping, the budget-guarded collector, which has the user's record
\* by then, stores it with an empty mapping; and an entry the fallback
\* collector stores carries the mapping the languages step left
LangFailureStep ==
    /\ LangsThrown =>
         /\ version = "fallback" =>
              /\ cpc' = "stats"
              /\ idx' = idx
              /\ langs' = <<>>
              /\ calls' = Append(calls, [endpoint |-> "stats", repo |-> idx, page |-> 0])
         /\ (version = "budget" /\ me.found) =>
              /\ RepoName(idx) \in DOMAIN newCache'
              /\ newCache'[RepoName(idx)].languages = <<>>
              /\ RepoName(idx) \in DOMAIN newTotals'
    /\ (version = "fallback" /\ InLoop /\ RepoName(idx) \in DOMAIN newCache') =>
         newCache'[RepoName(idx)].languages = langs

\* C12: a languages request that fails never removes its repository from the
\* result: the collector continues with an empty mapping, still makes the
\* statistics request (and the commit listing if needed), and stores the entry
\* with languages = {} when the user has commits.
C12_LangFailureKeepsRepo == [][LangFailureStep]_vars

\* the budget-guarded loop was left before the end of the list
LeftEarly == version = "budget" /\ cpc = "done" /\ idx <= Len(repoList)

\* what holds of the budget in every state of the budget-guarded collector:
\* inside the loop the last reading was within the budget; the loop is left
\* early only on a reading above it, and then no request was issued for the
\* repository the loop was at or a later one, and the run ended with code 0
\* having written what it had gathered to both files
C13_BudgetState ==
    version = "budget" =>
      /\ InLoop => elapsedMs <= GlobalTimeoutMs
      /\ LeftEarly <=> (cpc = "done" /\ elapsedMs > GlobalTimeoutMs)
      /\ LeftEarly =>
           /\ \A k \in 1..Len(calls) : calls[k].repo < idx
           /\ exitCode = 0
           /\ writes = <<"stats_cache.json", "last_totals.json">>
           /\ WrittenCache = newCache
           /\ WrittenTotals = newTotals

\* a step reads the clock only when it starts a repository iteration, and the
\* run that has ended takes no further step
C13_BudgetStep ==
    version = "budget" =>
      /\ elapsedMs' # elapsedMs => (idx' > idx /\ cpc \in {"discover", "stats", "langs"})
      /\ cpc # "done"

\* C13: in the budget-guarded collector the elapsed-time budget is polled only
\* at the start of a repository iteration; once a reading there exceeds the
\* budget no request is issued for that repository or a later one, and what
\* was gathered for the repositories before it is written to both files, the
\* run ending with code 0; no step changes what was stored for a repository
\* other than the one at hand.
C13_BudgetPolledBetweenRepos ==
    []C13_BudgetState /\ [][C13_BudgetStep /\ EntriesKept]_vars

\* C13 witness: the budget-guarded collector stored the first of two
\* repositories, read a time above the budget at the second, issued no request
\* for it and wrote the entry of the first.
C13_Witness ==
    /\ LeftEarly
    /\ Live = {1, 2}
    /\ idx = 2
    /\ elapsedMs = GlobalTimeoutMs + 1
    /\ InCache(1)
    /\ InTotals(1)
    /\ ~HasCall(2, "stats")
    /\ exitCode = 0

\* the guard found the cache file with an age below the window
SawFreshCache == guard.seen = "aged" /\ guard.ageMs < MaxCacheAgeMs

\* C14: a run with the credential present that finds stats_cache.json with an
\* age below the max-age window exits with code 0 having issued no request and
\* written no file; when the file is absent, its age is the window or more, or
\* the age check throws, the run goes on to the request for the repositories.
C14_FreshCacheShortCircuits ==
    /\ ~token => guard.seen = "none"
    /\ (token /\ cpc # "start") =>
         /\ guard.seen \in {"absent", "failed", "aged"}
         /\ guard.seen = "absent" => (writes = <<>> => ~disk["stats_cache.json"].exists)
         /\ guard.seen \in {"failed", "aged"} => disk["stats_cache.json"].exists
         /\ SawFreshCache =>
              /\ cpc = "exit"
              /\ exitCode = 0
              /\ calls = <<>>
              /\ writes = <<>>
              /\ disk \in Disks
         /\ ~SawFreshCache =>
              /\ calls # <<>>
              /\ calls[1] = [endpoint |-> "repos", repo |-> 0, page |-> 1]
              /\ ~(cpc = "exit" /\ exitCode = 0)

\* C14 witness: the run found a cache one millisecond younger than the window
\* and exited with code 0.
C14_Witness ==
    /\ token
    /\ guard = [seen |-> "aged", ageMs |-> MaxCacheAgeMs - 1]
    /\ cpc = "exit"
    /\ exitCode = 0
    /\ calls = <<>>

\* the repository last printed about ended without an entry being stored
LastStoredNothing ==
    /\ statsLog.i > 0
    /\ statsLog.line \notin {"used", "processed"}
    /\ ~(statsLog.fb = "returned" /\ statsLog.fbTotal > 0)

\* the names of the repositories this run made its statistics request for
Requested == {RepoName(i) : i \in {j \in Live : j <= idx /\ HasCall(j, "stats")}}

\* C15: the cache a completed run writes holds exactly the entries the run
\* produced: the run starts from an empty mapping, whatever the file holds,
\* collects entries only for repositories it made requests for, leaves the
\* files alone until it has finished, and then overwrites them, so that no
\* entry of the previous cache is retained for a repository that was skipped,
\* failed or not reached, or is no longer listed.
C15_CacheReplacedNotMerged ==
    /\ cpc \in {"start", "discover", "exit"} => newCache = <<>> /\ newTotals = <<>>
    /\ DOMAIN newCache \subseteq Requested
    /\ DOMAIN newTotals = DOMAIN newCache
    /\ \A k \in DOMAIN newCache : newTotals[k] = newCache[k].totalCommits
    /\ cpc # "done" => disk \in Disks /\ writes = <<>>
    /\ cpc = "done" =>
         /\ disk["stats_cache.json"] = [exists |-> TRUE, parseable |-> TRUE, val |-> newCache]
         /\ disk["last_totals.json"] = [exists |-> TRUE, parseable |-> TRUE, val |-> newTotals]
         /\ \A k \in DOMAIN OldCache : k \notin Requested => k \notin DOMAIN WrittenCache
         /\ \A i \in 1..Len(repoList) :
              (repoList[i].archived \/ i >= idx) => ~InCache(i)
         /\ LastStoredNothing => ~InCache(statsLog.i)

\* C15 witness: the previous cache held o/r1 and o/r9; the run found it stale,
\* listed o/r1 alone, failed on it, and wrote an empty cache.
C15_Witness ==
    /\ cpc = "done"
    /\ guard.seen = "aged"
    /\ Live = {1}
    /\ statsLog.i = 1
    /\ statsLog.err = "ApiError"
    /\ LastStoredNothing
    /\ WrittenCache = <<>>
    /\ WrittenTotals = <<>>

\* C16: the exit code tells three outcomes apart: 0 for a run that completes
\* or finds a fresh cache, one non-zero code for a missing credential, which
\* exits before any request, and another non-zero code for an exception that
\* reaches the top-level catch, such as a failed repository discovery.
C16_ExitCodesDistinguishOutcomes ==
    /\ cpc \notin {"done", "exit"} => exitCode = -1
    /\ cpc = "done" => exitCode = 0
    /\ cpc = "exit" =>
         /\ ~token => (exitCode = 1 /\ calls = <<>>)
         /\ (token /\ SawFreshCache) => exitCode = 0
         /\ (token /\ ~SawFreshCache) => exitCode \notin {0, 1}

\* a request is out or a backoff sleep runs
CallRuns == fpc \in {"fetching", "sleeping"}

\* the requests were issued repository after repository, the discovery first
CallsByRepository ==
    \A k, l \in DOMAIN calls : k < l => calls[k].repo <= calls[l].repo

\* a step that issues a request issues one, when no request is out and no
\* backoff sleep runs; the first request for another repository is issued
\* when the listing of the one before has ended as well
OneCallAtATime ==
    calls' # calls =>
      /\ ~CallRuns
      /\ Len(calls') = Len(calls) + 1
      /\ SubSeq(calls', 1, Len(calls)) = calls
      /\ fpc' = "fetching"
      /\ (calls # <<>> /\ calls'[Len(calls')].repo # calls[Len(calls)].repo) =>
            apc # "awaiting"

\* C25: during a collection run at most one request is in flight at any time,
\* and every request and backoff sleep of one repository (languages, fast
\* path, fallback pages, retries) is over before the first request for the
\* next repository is issued.
C25_OneRepositoryAtATime == []CallsByRepository /\ [][OneCallAtATime]_vars

\* C25 witness: the first request for the second repository is out, after a
\* commit listing was made for the first.
C25_Witness ==
    /\ Len(calls) >= 2
    /\ calls[Len(calls)].repo = 2
    /\ fpc = "fetching"
    /\ \E k \in DOMAIN calls : calls[k].repo = 1 /\ calls[k].endpoint = "commits"
    /\ \A k \in 1..(Len(calls) - 1) : calls[k].repo < 2

\* the value a mapping has at a key, a key it lacks counting as 0
At(T, k) == IF k \in DOMAIN T THEN T[k] ELSE 0

\* the totals the file written as the totals snapshot holds, {} when there is
\* no such file or it does not parse
SnapshotOnDisk ==
    IF disk["last_totals.json"].exists /\ disk["last_totals.json"].parseable
      THEN disk["last_totals.json"].val
      ELSE <<>>

\* the step that ends a run with its report on changes: the previous totals
\* were read under the name the new totals are written under, and no change is
\* reported exactly when the new totals are those the snapshot held
ChangeReportStep ==
    (cpc # "done" /\ cpc' = "done") =>
      /\ OutLastRead = writes'[Len(writes')]
      /\ (changeLog' = "nochange") <=>
           \A k \in (DOMAIN SnapshotOnDisk) \cup (DOMAIN newTotals') :
              At(SnapshotOnDisk, k) = At(newTotals', k)

\* C26: the report on changes at the end of a run compares the new totals with
\* the totals the previous completed run wrote: the previous snapshot is read,
\* before it is overwritten, under the name the new snapshot is written under,
\* so that a run whose totals are those of the run before reports no change.
C26_ChangeAgainstPreviousSnapshot == [][ChangeReportStep]_vars

\* a totals mapping has the keys of a cache and, for each, its totalCommits
Mirrors(totals, cache) ==
    /\ DOMAIN totals = DOMAIN cache
    /\ \A k \in DOMAIN cache : totals[k] = cache[k].totalCommits

\* the repository the run printed about last got its entry from the commit
\* listing
LastFromFallback == statsLog.fb = "returned" /\ statsLog.fbTotal > 0

\* newTotals mirrors newCache, the files written mirror each other, and the
\* entry the commit listing gave the repository printed about last has the sum
\* of its weeks as its total
C27_TotalsState ==
    /\ Mirrors(newTotals, newCache)
    /\ cpc = "done" => Mirrors(WrittenTotals, WrittenCache)
    /\ LastFromFallback =>
         /\ RepoName(statsLog.i) \in DOMAIN newCache \/ cpc = "done"
         /\ RepoName(statsLog.i) \in DOMAIN newCache =>
              /\ newCache[RepoName(statsLog.i)].totalCommits
                   = SumC(newCache[RepoName(statsLog.i)].weeks)
              /\ newCache[RepoName(statsLog.i)].totalCommits = statsLog.fbTotal
         /\ cpc = "done" =>
              /\ RepoName(statsLog.i) \in DOMAIN WrittenCache
              /\ WrittenCache[RepoName(statsLog.i)].totalCommits
                   = SumC(WrittenCache[RepoName(statsLog.i)].weeks)

\* C27: at every point of a run, and in the files it writes, the totals
\* snapshot and the cache have the same repository keys and totals[r] =
\* cache[r].totalCommits; an entry that comes from the commit listing has the
\* sum of its weekly counts as that value. (An entry, once stored, is left as
\* it is by the handling of the other repositories.)
C27_TotalsMirrorCache == []C27_TotalsState /\ [][EntriesKept]_vars

\* C27 witness: the run has written an entry counted from a commit listing of
\* 3 commits, with 3 in the totals snapshot.
C27_Witness ==
    /\ cpc = "done"
    /\ LastFromFallback
    /\ statsLog.fbTotal = 3
    /\ WrittenTotals[RepoName(statsLog.i)] = 3
    /\ WrittenCache[RepoName(statsLog.i)].totalCommits = 3
    /\ SumC(WrittenCache[RepoName(statsLog.i)].weeks) = 3


\* C28: in the budget-guarded collector, when the contributor-statistics
\* request of a repository throws because ghFetch used up its 202 retries
\* (the error it marks with code GH_STATS_202), the run reports the repository
\* as skipped because its stats are not ready, not through the generic
\* error report.
C28_StatsNotReadyRecognised ==
    ( /\ version = "budget"
      /\ statsLog.i > 0
      /\ statsLog.at = "stats"
      /\ statsLog.err = "StatsNotReady" )
    => statsLog.line = "stats not ready"

\* the budget-guarded collector's statistics request gave up on 202 answers
C28_Witness ==
    /\ version = "budget"
    /\ statsLog.i > 0
    /\ statsLog.at = "stats"
    /\ statsLog.err = "StatsNotReady"


\* the ghFetch call is between its first request and its return or throw
Running == fpc \in {"fetching", "sleeping"}

\* the requests of the call so far are within max202 + maxNetworkRetries + 1
RequestsBounded == NumRequests <= opts.max202 + opts.maxNetworkRetries + 1

\* C29: every ghFetch call terminates whatever outcomes (transport failure,
\* 202, other status, success) the network chooses: it issues at most
\* max202 + maxNetworkRetries + 1 requests, and a running call goes on to
\* return a payload or throw.
C29_GhFetchTerminatesWithinBudget ==
    /\ []RequestsBounded
    /\ Running ~> Terminal

\* a call that ended after exactly max202 + maxNetworkRetries + 1 requests,
\* having retried both 202 answers and transport failures
C29_Witness ==
    /\ Terminal
    /\ opts.max202 > 0
    /\ opts.maxNetworkRetries > 0
    /\ Num202 > 0
    /\ NumTransport > 0
    /\ NumRequests = opts.max202 + opts.maxNetworkRetries + 1

(***************************************************************************)
(* The helpers called on their own                                         *)
(***************************************************************************)
\* no request is made and no collector runs
NothingRuns ==
    /\ opts = OptsOf(NoOpts)
    /\ req = NoReq
    /\ attempt = 0
    /\ networkAttempts = 0
    /\ fpc = "idle"
    /\ fres = NoRes
    /\ trace = <<>>
    /\ page = 0
    /\ results = <<>>
    /\ apc = "idle"
    /\ ares = NoRes
    /\ received = <<>>
    /\ calls = <<>>
    /\ version = "none"
    /\ token = FALSE
    /\ guard = NoGuard
    /\ cpc = "none"
    /\ exitCode = -1
    /\ repoList = <<>>
    /\ idx = 0
    /\ processed = 0
    /\ langs = <<>>
    /\ me = NoMe
    /\ newCache = <<>>
    /\ newTotals = <<>>
    /\ writes = <<>>
    /\ elapsedMs = 0
    /\ statsLog = NoLog
    /\ changeLog = "none"

\* what a helper call leaves alone besides the store
HelperFrame ==
    UNCHANGED <<gfVars, gaVars, calls, version, token, guard, cpc, exitCode, repoList,
                idx, processed, langs, me, newCache, newTotals, writes, elapsedMs,
                statsLog, changeLog>>

\* totals mappings { repoFullName: totalCommits } over the repository names
TotalsMaps ==
    UNION { [K -> 0..MaxTotal] : K \in SUBSET {RepoName(i) : i \in 1..MaxRepos} }

DetectArgs == [fn : {"detectChanges"}, prevTotals : TotalsMaps, newTotals : TotalsMaps]

\* detectChanges(arg.prevTotals, arg.newTotals) is called and returns
CallDetectChanges ==
    /\ arg.fn = "detectChanges"
    /\ ~ret.done
    /\ ret' = [done |-> TRUE, val |-> detectChanges(arg.prevTotals, arg.newTotals)]
    /\ UNCHANGED <<arg, disk, stored>>
    /\ HelperFrame

InitDetect ==
    /\ NothingRuns
    /\ disk = [f \in Files |-> NoFile]
    /\ arg \in DetectArgs
    /\ ret = NoRet
    /\ stored = <<>>

NextDetect == CallDetectChanges

SpecDetect == InitDetect /\ [][NextDetect]_vars

\* C17: detectChanges(T, T) is false, and detectChanges(T1, T2) is true exactly
\* when some key of either mapping has different values in the two, a key a
\* mapping lacks counting as 0.
C17_DetectChangesIffSomeKeyDiffers ==
    (arg.fn = "detectChanges" /\ ret.done) =>
       LET T1 == arg.prevTotals
           T2 == arg.newTotals
       IN  /\ T1 = T2 => ret.val = FALSE
           /\ ret.val = TRUE <=>
                \E k \in (DOMAIN T1) \cup (DOMAIN T2) : At(T1, k) # At(T2, k)

\* C17 witness: o/r1 is 0 on one side and absent on the other, o/r2 is equal
\* on both sides, and detectChanges returned false.
C17_Witness ==
    /\ arg.fn = "detectChanges"
    /\ ret.done
    /\ arg.prevTotals = (RepoName(1) :> 0) @@ (RepoName(2) :> 2)
    /\ arg.newTotals = (RepoName(2) :> 2)
    /\ ret.val = FALSE

-----------------------------------------------------------------------------
\* readJSON and writeJSON called on their own, on files that may also be
\* damaged or removed from outside

\* JavaScript values of the properties of an object given to writeJSON
JsNum(n) == [t |-> "number", v |-> n]
JsNaN == [t |-> "NaN"]
JsUndefined == [t |-> "undefined"]
JsNull == [t |-> "null"]

JsScalars == {JsNum(0), JsNum(MaxTotal), JsNaN, JsUndefined}

\* the objects given to writeJSON: up to two properties
StoreObjs ==
    UNION { [K -> JsScalars] : K \in SUBSET {RepoName(1), RepoName(2)} }

\* JSON.parse(JSON.stringify(obj, null, 2)): a property that is undefined is
\* left out, NaN is written as null
JSONstringify(obj) ==
    [k \in {x \in DOMAIN obj : obj[x] # JsUndefined} |->
        IF obj[k] = JsNaN THEN JsNull ELSE obj[k]]

\* the files the calls name
StoreFiles == {"stats_cache.json", "last_totals.json"}

\* the defaults readJSON is given: null (the parameter default) and {}
StoreDefaults == {JsNull, <<>>}

\* writeJSON(f, obj) is called and returns
CallWriteJSON ==
    /\ \E f \in StoreFiles, obj \in StoreObjs :
         /\ disk' = writeJSON(disk, f, JSONstringify(obj))
         /\ stored' = Put(stored, f, obj)
         /\ arg' = [fn |-> "writeJSON", filename |-> f]
    /\ ret' = [done |-> TRUE, threw |-> FALSE, val |-> JsUndefined]
    /\ HelperFrame

\* readJSON(f, defaultValue) is called and returns
CallReadJSON ==
    /\ \E f \in StoreFiles, dflt \in StoreDefaults :
         /\ arg' = [fn |-> "readJSON", filename |-> f, defaultValue |-> dflt]
         /\ ret' = [done |-> TRUE, threw |-> FALSE, val |-> readJSON(disk, f, dflt)]
    /\ UNCHANGED <<disk, stored>>
    /\ HelperFrame

\* from outside: the text of a file is cut short, so that it no longer parses
FileDamaged ==
    /\ \E f \in StoreFiles :
         /\ disk[f].exists
         /\ disk' = [disk EXCEPT ![f] = [exists |-> TRUE, parseable |-> FALSE, val |-> <<>>]]
         /\ arg' = [fn |-> "damaged", filename |-> f]
    /\ ret' = NoRet
    /\ UNCHANGED stored
    /\ HelperFrame

\* from outside: a file is removed
FileRemoved ==
    /\ \E f \in StoreFiles :
         /\ disk[f].exists
         /\ disk' = [disk EXCEPT ![f] = NoFile]
         /\ arg' = [fn |-> "removed", filename |-> f]
    /\ ret' = NoRet
    /\ UNCHANGED stored
    /\ HelperFrame

InitStore ==
    /\ NothingRuns
    /\ disk = [f \in Files |-> NoFile]
    /\ arg = NoArg
    /\ ret = NoRet
    /\ stored = <<>>

NextStore ==
    \/ CallWriteJSON
    \/ CallReadJSON
    \/ FileDamaged
    \/ FileRemoved

SpecStore == InitStore /\ [][NextStore]_vars

\* readJSON has just returned
ReadReturned == arg.fn = "readJSON" /\ ret.done

\* readJSON does not fail, and gives the default when the file is absent or
\* does not parse
ReadNeverFails ==
    ReadReturned =>
      /\ ~ret.threw
      /\ (~disk[arg.filename].exists \/ ~disk[arg.filename].parseable) =>
           ret.val = arg.defaultValue

\* a call of readJSON leaves the files as they are
ReadLeavesStore ==
    (arg'.fn = "readJSON" /\ <<arg', ret'>> # <<arg, ret>>) =>
       disk' = disk /\ stored' = stored

\* what holds when readJSON has returned, as stated: the object last given to
\* writeJSON for the file is returned when the file parses
C18_ReadState ==
    /\ ReadNeverFails
    /\ (ReadReturned /\ disk[arg.filename].exists /\ disk[arg.filename].parseable) =>
         /\ arg.filename \in DOMAIN stored
         /\ ret.val = stored[arg.filename]

\* C18 (as stated): readJSON never fails: it returns the value last written
\* under the key by writeJSON when the content parses, the default when the
\* key is absent or its content does not parse, and leaves the store as it is.
C18_ReadReturnsLastWritten == []C18_ReadState /\ [][ReadLeavesStore]_vars

\* what holds when readJSON has returned: the JSON value of the object last
\* given to writeJSON for the file is returned when the file parses
C18_ReadStateJson ==
    /\ ReadNeverFails
    /\ (ReadReturned /\ disk[arg.filename].exists /\ disk[arg.filename].parseable) =>
         /\ arg.filename \in DOMAIN stored
         /\ ret.val = JSONstringify(stored[arg.filename])
         /\ (\A k \in DOMAIN stored[arg.filename] :
               stored[arg.filename][k].t = "number") => ret.val = stored[arg.filename]

\* C18 (amended): readJSON never fails: when the content parses it returns the
\* JSON value of the object last written under the key by writeJSON, which is
\* that object when it holds nothing JSON cannot express (a property that is
\* undefined comes back missing, NaN comes back as null); it returns the
\* default when the key is absent or its content does not parse, and leaves
\* the store as it is.
C18_ReadReturnsJsonOfLastWritten == []C18_ReadStateJson /\ [][ReadLeavesStore]_vars

\* C18 witness: an object with a NaN and an undefined property was written to
\* last_totals.json, and readJSON returned it with null and without the
\* undefined property.
C18_Witness ==
    /\ ReadReturned
    /\ arg.filename = "last_totals.json"
    /\ "last_totals.json" \in DOMAIN stored
    /\ stored["last_totals.json"] = (RepoName(1) :> JsNaN) @@ (RepoName(2) :> JsUndefined)
    /\ ret.val = (RepoName(1) :> JsNull)

-----------------------------------------------------------------------------
\* weekStartUnix called on its own. A time value is given as the day it lies
\* in and the milliseconds into that day (ts = day * 86400000 + ms), so that
\* days far from 1970 can be given; the result is looked at in days, and in
\* seconds as well where ts and the week after it fit 32-bit integers.

\* the first days of the stretches of days the time values are drawn from:
\* around 1 Jan 1970, the leap day of 2024, the middle of year 53, the turn
\* of year 99 to 100 and the turn of year -1 to 0
WeekWindows ==
    { DaysFromCivil(1969, 11, 28), DaysFromCivil(2024, 1, 25),
      DaysFromCivil(53, 5, 15), DaysFromCivil(99, 11, 28),
      DaysFromCivil(-1, 11, 28) }

WeekDays == UNION { a..(a + WeekSpan) : a \in WeekWindows }

\* midnight, 1 ms past it, and the last ms of a day
MsOfDay == {0, 1, DayMs - 1}

\* the days whose time values, a week added, fit 32-bit integers in ms
MsDays == -17..17

WeekArgs == [fn : {"weekStartUnix"}, day : WeekDays, ms : MsOfDay]

\* weekStartUnix(ts), and weekStartUnix of its result * 1000, are called
CallWeekStartUnix ==
    /\ arg.fn = "weekStartUnix"
    /\ ~ret.done
    /\ ret' = [done |-> TRUE,
               startDay |-> WeekStartDay(arg.day),
               againDay |-> WeekStartDay(WeekStartDay(arg.day)),
               inMs |-> arg.day \in MsDays,
               val |-> IF arg.day \in MsDays
                       THEN weekStartUnix(arg.day * DayMs + arg.ms) ELSE 0,
               again |-> IF arg.day \in MsDays
                         THEN weekStartUnix(weekStartUnix(arg.day * DayMs + arg.ms) * 1000)
                         ELSE 0]
    /\ UNCHANGED <<arg, disk, stored>>
    /\ HelperFrame

InitWeek ==
    /\ NothingRuns
    /\ disk = [f \in Files |-> NoFile]
    /\ arg \in WeekArgs
    /\ ret = NoRet
    /\ stored = <<>>

NextWeek == CallWeekStartUnix

SpecWeek == InitWeek /\ [][NextWeek]_vars

\* a week in seconds, and the first Sunday 00:00:00 UTC from 1970 on
\* (4 Jan 1970) in seconds
WeekSec == 7 * 86400
FirstSundaySec == 3 * 86400

\* the result for the time value given is a Sunday 00:00:00 UTC, the time value
\* lies in the week that starts there, and the result is its own result
SundayBoundary ==
    /\ (ret.startDay - 3) % 7 = 0
    /\ ret.startDay <= arg.day
    /\ arg.day < ret.startDay + 7
    /\ ret.againDay = ret.startDay
    /\ ret.inMs =>
         LET t == arg.day * DayMs + arg.ms
             sec == ret.val
         IN  /\ sec % WeekSec = FirstSundaySec
             /\ sec * 1000 <= t
             /\ t < (sec + WeekSec) * 1000
             /\ ret.again = sec

\* the days of the years 0..99
TwoDigitYearDays == DaysFromCivil(0, 0, 1)..DaysFromCivil(99, 11, 31)

\* C19 (as stated): for every millisecond timestamp t, weekStartUnix(t) is a
\* UTC Sunday 00:00:00 boundary s with s*1000 <= t < (s + 7*86400)*1000, and
\* weekStartUnix(weekStartUnix(t)*1000) = weekStartUnix(t).
C19_WeekStartEveryTimestamp ==
    (arg.fn = "weekStartUnix" /\ ret.done) => SundayBoundary

\* the Sunday on or before day dn (4 Jan 1970, day 3, was a Sunday)
SundayOnOrBefore(dn) == dn - ((dn - 3) % 7)

\* C19 (amended): for every millisecond timestamp t such that neither t nor
\* the Sunday 00:00:00 UTC on or before t lies in the years 0..99 UTC,
\* weekStartUnix(t) is a UTC Sunday 00:00:00 boundary s with
\* s*1000 <= t < (s + 7*86400)*1000, and
\* weekStartUnix(weekStartUnix(t)*1000) = weekStartUnix(t).
C19_WeekStartOutsideTwoDigitYears ==
    ( /\ arg.fn = "weekStartUnix"
      /\ ret.done
      /\ arg.day \notin TwoDigitYearDays
      /\ SundayOnOrBefore(arg.day) \notin TwoDigitYearDays ) =>
        SundayBoundary

\* C19 witness: weekStartUnix(-1), the last millisecond of Wed 31 Dec 1969,
\* returned Sun 28 Dec 1969 00:00:00 (-345600 s).
C19_Witness ==
    /\ arg.fn = "weekStartUnix"
    /\ arg.day = -1
    /\ arg.ms = DayMs - 1
    /\ ret.done
    /\ ret.inMs
    /\ ret.val = -4 * 86400

-----------------------------------------------------------------------------
\* countCommitsPerWeek on its own, given the commits the listing returned

\* every list of at most MaxCommits commits with the dates of CommitDates
\* (one absent, two in the same week, one in the week before)
ListedCommits ==
    UNION { [1..n -> {Commit(CommitDates[i]) : i \in DOMAIN CommitDates}] :
              n \in 0..MaxCommits }

CountArgs == [fn : {"countCommitsPerWeek"}, commits : ListedCommits]

\* the loop and the return of countCommitsPerWeek, ghFetchAll having returned
CallCountCommitsPerWeek ==
    /\ arg.fn = "countCommitsPerWeek"
    /\ ~ret.done
    /\ ret' = [done |-> TRUE, val |-> countCommitsPerWeek(arg.commits)]
    /\ UNCHANGED <<arg, disk, stored>>
    /\ HelperFrame

InitCount ==
    /\ NothingRuns
    /\ disk = [f \in Files |-> NoFile]
    /\ arg \in CountArgs
    /\ ret = NoRet
    /\ stored = <<>>

NextCount == CallCountCommitsPerWeek

SpecCount == InitCount /\ [][NextCount]_vars

\* the positions of the listed commits that carry a date
Dated(commits) == {i \in DOMAIN commits : commits[i].date # -1}

\* the start, in s, of the UTC week a time value in ms lies in
UtcWeekStart(ms) == SundayOnOrBefore(ms \div DayMs) * 86400

\* C20: for every list of commits the listing returned, countCommitsPerWeek
\* returns one bucket per distinct UTC week start of the dated commits, each
\* counting the commits of its week, in strictly ascending order of week
\* start, and a total equal to the sum of the bucket counts and to the number
\* of listed commits that carry a date.
C20_BucketsPerWeekSumToTotal ==
    (arg.fn = "countCommitsPerWeek" /\ ret.done) =>
      LET commits == arg.commits
          weeks == ret.val.weeks
          starts == {UtcWeekStart(commits[i].date) : i \in Dated(commits)}
      IN  /\ {weeks[i].w : i \in DOMAIN weeks} = starts
          /\ Len(weeks) = Cardinality(starts)
          /\ \A i \in DOMAIN weeks :
               weeks[i].c = Cardinality({j \in Dated(commits) :
                                UtcWeekStart(commits[j].date) = weeks[i].w})
          /\ \A i \in 1..(Len(weeks) - 1) : weeks[i].w < weeks[i + 1].w
          /\ ret.val.total = SumC(weeks)
          /\ ret.val.total = Cardinality(Dated(commits))

\* C20 witness: commits of Sat 10 Jan, Sun 4 Jan and Thu 1 Jan 1970, listed in
\* that order, gave the week of 28 Dec 1969 with 1 commit before the week of
\* 4 Jan 1970 with 2, and a total of 3.
C20_Witness ==
    /\ arg.fn = "countCommitsPerWeek"
    /\ ret.done
    /\ arg.commits = <<Commit(9 * DayMs), Commit(3 * DayMs + 1000), Commit(0)>>
    /\ ret.val = [total |-> 3,
                  weeks |-> <<[w |-> -4 * 86400, c |-> 1], [w |-> Sunday1, c |-> 2]>>]

(***************************************************************************)
(* scripts/utils/transform.js                                              *)
(***************************************************************************)
\* A cache is given as the sequence of its [repo, info] pairs in the order of
\* Object.entries(cache), which for repository full names (they hold a "/")
\* is the order the keys were inserted in.

\* new Date(ms).toISOString(): year, month 1..12, day, and the ms into the day
toISOString(ms) ==
    [y |-> CivilFromDays(ms \div DayMs).y,
     mo |-> CivilFromDays(ms \div DayMs).m + 1,
     d |-> CivilFromDays(ms \div DayMs).d,
     t |-> ms % DayMs]

\* .filter(w => (w.w * 1000) > cutoff): a week that starts at the cutoff is
\* left out
InWindowAfter(weeks, cutoff) ==
    SelectSeq(weeks, LAMBDA w : w.w * 1000 > cutoff)

\* (info.weeks || []).filter(w => (w.w * 1000) >= cutoff)
InWindow(weeks, cutoff) ==
    SelectSeq(weeks, LAMBDA w : w.w * 1000 >= cutoff)

\* the loop over Object.entries(cache) that fills repoTotals
RepoTotalsOf(cache, cutoff) ==
    [i \in 1..Len(cache) |->
        [repo |-> cache[i].repo,
         total |-> SumC(InWindow(cache[i].info.weeks, cutoff)),
         weeks |-> InWindow(cache[i].info.weeks, cutoff)]]

\* a sort that puts an element before those of the same total
RECURSIVE InsertBeforeEqual(_, _)
InsertBeforeEqual(sorted, r) ==
    IF sorted = <<>> THEN <<r>>
    ELSE IF Head(sorted).total > r.total
         THEN <<Head(sorted)>> \o InsertBeforeEqual(Tail(sorted), r)
         ELSE <<r>> \o sorted

\* the place of r in a list sorted by (a, b) => b.total - a.total: behind
\* every element whose total is not smaller (Array.prototype.sort is stable)
RECURSIVE InsertByTotal(_, _)
InsertByTotal(sorted, r) ==
    IF sorted = <<>> THEN <<r>>
    ELSE IF Head(sorted).total >= r.total
         THEN <<Head(sorted)>> \o InsertByTotal(Tail(sorted), r)
         ELSE <<r>> \o sorted

\* repoTotals.sort((a, b) => b.total - a.total), list being what is not yet
\* placed
RECURSIVE SortByTotal(_, _)
SortByTotal(list, sorted) ==
    IF list = <<>> THEN sorted
    ELSE SortByTotal(Tail(list), InsertByTotal(sorted, Head(list)))

\* repoTotals.slice(0, topN).map(r => r.repo)
TopOf(sorted, topN) ==
    [i \in 1..Min(topN, Len(sorted)) |-> sorted[i].repo]

\* top.includes(name)
Includes(top, name) == \E i \in DOMAIN top : top[i] = name

\* the points pushed for one element of repoTotals
PointsOf(r) ==
    [k \in 1..Len(r.weeks) |->
        [name |-> r.repo, date |-> toISOString(r.weeks[k].w * 1000),
         value |-> r.weeks[k].c]]

\* the loop over repoTotals.filter(r => top.includes(r.repo)) that fills traffic
RECURSIVE TrafficOf(_, _)
TrafficOf(sorted, top) ==
    IF sorted = <<>> THEN <<>>
    ELSE (IF Includes(top, Head(sorted).repo) THEN PointsOf(Head(sorted)) ELSE <<>>)
         \o TrafficOf(Tail(sorted), top)

Figure1Of(sorted, topN) ==
    [traffic |-> TrafficOf(sorted, TopOf(sorted, topN)),
     topRepos |-> TopOf(sorted, topN)]

\* buildFigure1Data(cache, username, daysBack, topN), Date.now() being now
buildFigure1Data(cache, now, daysBack, topN) ==
    Figure1Of(SortByTotal(RepoTotalsOf(cache, now - daysBack * DayMs), <<>>), topN)

-----------------------------------------------------------------------------
\* buildFigure1Data called on its own

\* Sun 28 Dec 1969, in s
Sunday0 == (-4 * DayMs) \div 1000

\* the weeks of a cache entry: up to three weeks in ascending order, the count
\* of the middle one 0, 1 or 2
FigWeekLists ==
    { a \o b \o c :
        a \in {<<>>, <<[w |-> Sunday0, c |-> 2]>>},
        b \in {<<>>} \cup { <<[w |-> Sunday1, c |-> n]>> : n \in 0..2 },
        c \in {<<>>, <<[w |-> Sunday2, c |-> 1]>>} }

FigInfo(private, weeks, languages) ==
    [private |-> private, weeks |-> weeks, languages |-> languages]

\* caches of up to most public repositories without languages
Fig1Caches(most) ==
    UNION { { [i \in 1..n |-> [repo |-> RepoName(i),
                               info |-> FigInfo(FALSE, wl[i], <<>>)]] :
              wl \in [1..n -> FigWeekLists] } : n \in 0..most }

\* four repositories with 50, 30, 80 and 10 commits in the week of 4 Jan 1970
TotalsExample ==
    [i \in 1..4 |->
        [repo |-> RepoName(i),
         info |-> FigInfo(FALSE, <<[w |-> Sunday1, c |-> <<50, 30, 80, 10>>[i]]>>, <<>>)]]

\* Date.now(): a day after the start of the week of 4 Jan 1970, and 1 ms later;
\* with daysBack = 1 that week starts at the cutoff, or 1 ms before it
FigNows == {Sunday1 * 1000 + DayMs, Sunday1 * 1000 + DayMs + 1}

Figure1Args(most) ==
    [fn : {"buildFigure1Data"}, cache : Fig1Caches(most), now : FigNows,
     daysBack : {1}, topN : 0..(most + 1)]
    \cup [fn : {"buildFigure1Data"}, cache : {TotalsExample}, now : FigNows,
          daysBack : {1}, topN : {2}]

CallBuildFigure1Data ==
    /\ arg.fn = "buildFigure1Data"
    /\ ~ret.done
    /\ ret' = [done |-> TRUE,
               val |-> buildFigure1Data(arg.cache, arg.now, arg.daysBack, arg.topN)]
    /\ UNCHANGED <<arg, disk, stored>>
    /\ HelperFrame

InitFigure1 ==
    /\ NothingRuns
    /\ disk = [f \in Files |-> NoFile]
    /\ arg \in Figure1Args(MaxFigRepos)
    /\ ret = NoRet
    /\ stored = <<>>

NextFigure1 == CallBuildFigure1Data

SpecFigure1 == InitFigure1 /\ [][NextFigure1]_vars

\* the cutoff of a call
CutoffOf(a) == a.now - a.daysBack * DayMs

\* the positions of the weeks of an entry that start at or after the cutoff
WeeksInWindow(info, cutoff) ==
    {k \in DOMAIN info.weeks : info.weeks[k].w * 1000 >= cutoff}

\* the sum of the counts of the weeks of an entry at the positions K
RECURSIVE CountSum(_, _)
CountSum(info, K) ==
    IF K = {} THEN 0
    ELSE LET k == CHOOSE x \in K : TRUE
         IN  info.weeks[k].c + CountSum(info, K \ {k})

\* the commits of the entry at position i of the cache in the window
WindowSum(a, i) ==
    CountSum(a.cache[i].info, WeeksInWindow(a.cache[i].info, CutoffOf(a)))

\* the position in the cache of the repository called name
PosOf(cache, name) == CHOOSE i \in DOMAIN cache : cache[i].repo = name

Figure1Returned == arg.fn = "buildFigure1Data" /\ ret.done

\* C21: topRepos has min(N, number of repositories of the cache) names of
\* the cache without duplicates, in descending order of the sum of the
\* repository's commit counts over the weeks at or after the cutoff,
\* repositories of equal sums in the order of the cache; no repository left
\* out has a larger sum than one in it.
C21_TopReposByWindowSum ==
    Figure1Returned =>
      LET top == ret.val.topRepos
          names == {arg.cache[i].repo : i \in DOMAIN arg.cache}
      IN  /\ Len(top) = Min(arg.topN, Len(arg.cache))
          /\ \A i \in DOMAIN top : top[i] \in names
          /\ \A i, j \in DOMAIN top : i # j => top[i] # top[j]
          /\ \A i, j \in DOMAIN top :
               i < j =>
                 \/ WindowSum(arg, PosOf(arg.cache, top[i]))
                      > WindowSum(arg, PosOf(arg.cache, top[j]))
                 \/ /\ WindowSum(arg, PosOf(arg.cache, top[i]))
                         = WindowSum(arg, PosOf(arg.cache, top[j]))
                    /\ PosOf(arg.cache, top[i]) < PosOf(arg.cache, top[j])
          /\ \A i \in DOMAIN arg.cache :
               ~Includes(top, arg.cache[i].repo) =>
                 \A j \in DOMAIN top :
                    WindowSum(arg, i) <= WindowSum(arg, PosOf(arg.cache, top[j]))

\* C21 witness: totals 50, 30, 80, 10 in the window and N = 2 gave the
\* repository with 80 before the repository with 50.
C21_Witness ==
    /\ Figure1Returned
    /\ arg.cache = TotalsExample
    /\ arg.now = Sunday1 * 1000 + DayMs
    /\ ret.val.topRepos = <<RepoName(3), RepoName(1)>>

\* C22: traffic holds exactly one point for every week at or after the cutoff
\* of every repository of topRepos, with that week's count as its value, and
\* no other point.
C22_OnePointPerTopRepoWeek ==
    Figure1Returned =>
      LET top == ret.val.topRepos
          traffic == ret.val.traffic
      IN  /\ \A i \in DOMAIN arg.cache :
               Includes(top, arg.cache[i].repo) =>
                 \A k \in WeeksInWindow(arg.cache[i].info, CutoffOf(arg)) :
                    Cardinality({p \in DOMAIN traffic :
                        /\ traffic[p].name = arg.cache[i].repo
                        /\ traffic[p].date = toISOString(arg.cache[i].info.weeks[k].w * 1000)
                        /\ traffic[p].value = arg.cache[i].info.weeks[k].c}) = 1
          /\ \A p \in DOMAIN traffic :
               /\ Includes(top, traffic[p].name)
               /\ \E k \in WeeksInWindow(arg.cache[PosOf(arg.cache, traffic[p].name)].info,
                                         CutoffOf(arg)) :
                    LET w == arg.cache[PosOf(arg.cache, traffic[p].name)].info.weeks[k]
                    IN  traffic[p].date = toISOString(w.w * 1000) /\ traffic[p].value = w.c
          /\ \A p, q \in DOMAIN traffic :
               (traffic[p].name = traffic[q].name /\ traffic[p].date = traffic[q].date)
                 => p = q

\* C22 witness: of two repositories the one with fewer commits in the window
\* is left out by N = 1, and the other has a point for each of its two weeks
\* in the window, one of them the week that starts at the cutoff.
C22_Witness ==
    /\ Figure1Returned
    /\ Len(arg.cache) = 2
    /\ arg.topN = 1
    /\ arg.now = Sunday1 * 1000 + DayMs
    /\ arg.cache[1].info.weeks = <<[w |-> Sunday0, c |-> 2], [w |-> Sunday1, c |-> 0]>>
    /\ ret.val.topRepos = <<RepoName(2)>>
    /\ ret.val.traffic =
         << [name |-> RepoName(2), date |-> [y |-> 1970, mo |-> 1, d |-> 4, t |-> 0],
             value |-> 2],
            [name |-> RepoName(2), date |-> [y |-> 1970, mo |-> 1, d |-> 11, t |-> 0],
             value |-> 1] >>

-----------------------------------------------------------------------------
\* buildFigure2Data. info.languages is given as the sequence of its
\* [name, bytes] pairs in the order of Object.entries.

\* the first pair of kv with more bytes than best: a pair of as many bytes as
\* an earlier one stays behind it in the sorted kv
RECURSIVE LargestFirst(_, _)
LargestFirst(kv, best) ==
    IF kv = <<>> THEN best
    ELSE LargestFirst(Tail(kv), IF Head(kv).bytes > best.bytes THEN Head(kv) ELSE best)

\* Object.entries(info.languages).sort((a, b) => b[1] - a[1])[0][0]
PrimaryLanguage(kv) == LargestFirst(Tail(kv), Head(kv)).name

\* lang with the private flag looked at first and the languages after it
LangOfLanguagesLast(info) ==
    IF Len(info.languages) > 0 THEN PrimaryLanguage(info.languages)
    ELSE IF info.private THEN "restricted" ELSE "Other"

\* lang of a repository
LangOf(info) ==
    IF info.private THEN "restricted"
    ELSE IF Len(info.languages) > 0 THEN PrimaryLanguage(info.languages)
    ELSE "Other"

\* weekStart.toISOString().slice(0,10)
IsoDate(ms) ==
    [y |-> toISOString(ms).y, mo |-> toISOString(ms).mo, d |-> toISOString(ms).d]

\* weekMap.get(iso), {} when the Map has no such key yet
BucketOf(weekMap, iso) == IF iso \in DOMAIN weekMap THEN weekMap[iso] ELSE <<>>

\* bucket[lang] = w.c || 0: what the bucket held is dropped
BucketSet(weekMap, iso, lang, c) ==
    Put(weekMap, iso, Put(BucketOf(weekMap, iso), lang, c))

\* bucket[lang] = (bucket[lang] || 0) + (w.c || 0)
BucketAdd(weekMap, iso, lang, c) ==
    Put(weekMap, iso,
        Put(BucketOf(weekMap, iso), lang, OrZero(BucketOf(weekMap, iso), lang) + c))

\* the loop over info.weeks
RECURSIVE AddWeeks(_, _, _, _)
AddWeeks(weekMap, weeks, lang, cutoff) ==
    IF weeks = <<>> THEN weekMap
    ELSE IF Head(weeks).w * 1000 < cutoff
         THEN AddWeeks(weekMap, Tail(weeks), lang, cutoff)
         ELSE AddWeeks(BucketAdd(weekMap, IsoDate(Head(weeks).w * 1000), lang,
                                 Head(weeks).c),
                       Tail(weeks), lang, cutoff)

\* the loop over Object.entries(cache)
RECURSIVE AddRepos(_, _, _)
AddRepos(weekMap, cache, cutoff) ==
    IF cache = <<>> THEN weekMap
    ELSE AddRepos(AddWeeks(weekMap, Head(cache).info.weeks, LangOf(Head(cache).info),
                           cutoff),
                  Tail(cache), cutoff)

\* 'YYYY-MM-DD' strings compared as strings: by year, month, day (years of
\* four digits)
IsoBefore(a, b) ==
    \/ a.y < b.y
    \/ a.y = b.y /\ a.mo < b.mo
    \/ a.y = b.y /\ a.mo = b.mo /\ a.d < b.d

\* Array.from(weekMap.keys()).sort()
RECURSIVE SortedDates(_)
SortedDates(S) ==
    IF S = {} THEN <<>>
    ELSE LET m == CHOOSE x \in S : \A y \in S : y = x \/ IsoBefore(x, y)
         IN  <<m>> \o SortedDates(S \ {m})

\* the keys of all buckets
LanguagesOf(weekMap) == UNION { DOMAIN weekMap[iso] : iso \in DOMAIN weekMap }

\* new Date(date) of a 'YYYY-MM-DD' string, in ms
DateOfIso(iso) == DaysFromCivil(iso.y, iso.mo - 1, iso.d) * DayMs

\* base with the keys of its own bucket only
RowOfOwnKeys(weekMap, iso, languages) ==
    [date |-> DateOfIso(iso), cols |-> weekMap[iso]]

\* base: the date and, for each of languages, bucket[lang] || 0
RowOf(weekMap, iso, languages) ==
    [date |-> DateOfIso(iso),
     cols |-> [l \in languages |-> OrZero(weekMap[iso], l)]]

\* sortedDates.map(...)
DataOf(weekMap, dates) ==
    [i \in 1..Len(dates) |-> RowOf(weekMap, dates[i], LanguagesOf(weekMap))]

WeekMillis == 7 * 24 * 3600 * 1000

\* buildFigure2Data(cache, username, weeksBack), Date.now() being now
buildFigure2Data(cache, now, weeksBack) ==
    DataOf(AddRepos(<<>>, cache, now - weeksBack * WeekMillis),
           SortedDates(DOMAIN AddRepos(<<>>, cache, now - weeksBack * WeekMillis)))

-----------------------------------------------------------------------------
\* buildFigure2Data called on its own

\* languages of a cache entry: none, JavaScript ahead in bytes but listed
\* second, and two languages of equal bytes
Fig2Languages ==
    { <<>>,
      <<[name |-> "Python", bytes |-> 5], [name |-> "JavaScript", bytes |-> 10]>>,
      <<[name |-> "Python", bytes |-> 7], [name |-> "JavaScript", bytes |-> 7]>> }

\* weeks of a cache entry: before, at and after Sun 4 Jan 1970 00:00, one of
\* them a second into that day
Fig2WeekLists ==
    { <<>>,
      <<[w |-> Sunday0, c |-> 2], [w |-> Sunday1, c |-> 1]>>,
      <<[w |-> Sunday1, c |-> 0]>>,
      <<[w |-> Sunday1 + 1, c |-> 1]>>,
      <<[w |-> Sunday1, c |-> 2], [w |-> Sunday2, c |-> 1]>>,
      <<[w |-> Sunday2, c |-> 1]>> }

Fig2Infos ==
    { FigInfo(p, wl, l) : p \in BOOLEAN, wl \in Fig2WeekLists, l \in Fig2Languages }

Fig2Caches(most) ==
    UNION { { [i \in 1..n |-> [repo |-> RepoName(i), info |-> f[i]]] :
              f \in [1..n -> Fig2Infos] } : n \in 0..most }

\* a private repository with 10 commits in the week of 4 Jan 1970 and a
\* public one, mostly JavaScript, with 5 commits in that week
LanguageExample ==
    << [repo |-> RepoName(1),
        info |-> FigInfo(TRUE, <<[w |-> Sunday1, c |-> 10]>>,
                         <<[name |-> "Python", bytes |-> 5]>>)],
       [repo |-> RepoName(2),
        info |-> FigInfo(FALSE, <<[w |-> Sunday1, c |-> 5]>>,
                         <<[name |-> "Python", bytes |-> 5],
                           [name |-> "JavaScript", bytes |-> 10]>>)] >>

\* Date.now(): a week after the start of the week of 4 Jan 1970, and 1 ms
\* later; with weeksBack = 1 that week starts at the cutoff, or 1 ms before it
Fig2Nows == {Sunday1 * 1000 + WeekMillis, Sunday1 * 1000 + WeekMillis + 1}

Figure2Args(most) ==
    [fn : {"buildFigure2Data"}, cache : Fig2Caches(most) \cup {LanguageExample},
     now : Fig2Nows, weeksBack : {1}]

CallBuildFigure2Data ==
    /\ arg.fn = "buildFigure2Data"
    /\ ~ret.done
    /\ ret' = [done |-> TRUE,
               val |-> buildFigure2Data(arg.cache, arg.now, arg.weeksBack)]
    /\ UNCHANGED <<arg, disk, stored>>
    /\ HelperFrame

InitFigure2 ==
    /\ NothingRuns
    /\ disk = [f \in Files |-> NoFile]
    /\ arg \in Figure2Args(MaxFigRepos)
    /\ ret = NoRet
    /\ stored = <<>>

NextFigure2 == CallBuildFigure2Data

SpecFigure2 == InitFigure2 /\ [][NextFigure2]_vars

Figure2Returned == arg.fn = "buildFigure2Data" /\ ret.done

\* the cutoff of a call of buildFigure2Data
Cutoff2 == arg.now - arg.weeksBack * WeekMillis

\* the column a repository is counted in
ColumnOf(info) ==
    IF info.private THEN "restricted"
    ELSE IF info.languages = <<>> THEN "Other"
    ELSE info.languages[
           CHOOSE i \in DOMAIN info.languages :
              /\ \A j \in DOMAIN info.languages :
                    info.languages[j].bytes <= info.languages[i].bytes
              /\ \A j \in 1..(i - 1) :
                    info.languages[j].bytes < info.languages[i].bytes].name

\* the day, as midnight UTC in ms, a week of a cache entry starts on
DayOfWeekStart(w) == ((w.w * 1000) \div DayMs) * DayMs

\* the positions of the weeks of an entry in the window that start on day
WeeksOn(info, day) ==
    {k \in WeeksInWindow(info, Cutoff2) : DayOfWeekStart(info.weeks[k]) = day}

\* the days on which a week of the window starts, in some repository
DaysInWindow ==
    UNION { { DayOfWeekStart(arg.cache[i].info.weeks[k]) :
                k \in WeeksInWindow(arg.cache[i].info, Cutoff2) } :
            i \in DOMAIN arg.cache }

\* the commits, in the weeks of the window that start on day, of the
\* repositories at the positions I of the cache
RECURSIVE CommitsOn(_, _)
CommitsOn(I, day) ==
    IF I = {} THEN 0
    ELSE LET i == CHOOSE x \in I : TRUE
         IN  CountSum(arg.cache[i].info, WeeksOn(arg.cache[i].info, day))
             + CommitsOn(I \ {i}, day)

\* the commits in the window of the repositories at the positions I
RECURSIVE CommitsInWindow(_)
CommitsInWindow(I) ==
    IF I = {} THEN 0
    ELSE LET i == CHOOSE x \in I : TRUE
         IN  CountSum(arg.cache[i].info, WeeksInWindow(arg.cache[i].info, Cutoff2))
             + CommitsInWindow(I \ {i})

\* the positions of the repositories counted in column l
CountedIn(l) == {i \in DOMAIN arg.cache : ColumnOf(arg.cache[i].info) = l}

\* the sum of the cells of a row over the columns L
RECURSIVE RowSum(_, _)
RowSum(cols, L) ==
    IF L = {} THEN 0
    ELSE LET l == CHOOSE x \in L : TRUE
         IN  cols[l] + RowSum(cols, L \ {l})

\* the sum of the cells of the rows at the positions P
RECURSIVE TableSum(_, _)
TableSum(rows, P) ==
    IF P = {} THEN 0
    ELSE LET p == CHOOSE x \in P : TRUE
         IN  RowSum(rows[p].cols, DOMAIN rows[p].cols) + TableSum(rows, P \ {p})

\* C23: every cell of a row holds the commits, in the weeks of the window that
\* start on the row's day, of the repositories counted in its column, and a
\* repository is counted in one column: 'restricted' if it is private,
\* whatever its languages; else its language of most bytes; else 'Other'.
\* Every week of the window of a repository has its row and column.
C23_OneColumnPerRepository ==
    Figure2Returned =>
      /\ \A p \in DOMAIN ret.val :
           \A l \in DOMAIN ret.val[p].cols :
              ret.val[p].cols[l] = CommitsOn(CountedIn(l), ret.val[p].date)
      /\ \A i \in DOMAIN arg.cache :
           \A k \in WeeksInWindow(arg.cache[i].info, Cutoff2) :
              \E p \in DOMAIN ret.val :
                 /\ ret.val[p].date = DayOfWeekStart(arg.cache[i].info.weeks[k])
                 /\ ColumnOf(arg.cache[i].info) \in DOMAIN ret.val[p].cols

\* C23 witness: a private repository (with Python bytes) with 10 commits and a
\* public, mostly JavaScript repository with 5 commits in the week of 4 Jan
\* 1970 gave one row with restricted = 10 and JavaScript = 5.
C23_Witness ==
    /\ Figure2Returned
    /\ arg.cache = LanguageExample
    /\ arg.now = Sunday1 * 1000 + WeekMillis
    /\ ret.val = << [date |-> Sunday1 * 1000,
                     cols |-> ("restricted" :> 10) @@ ("JavaScript" :> 5)] >>

\* C24: there is one row for every day on which a week of the window starts
\* in some repository and no other row, the rows are in strictly ascending
\* order of date, and every row has the same columns: the columns of the
\* repositories that have a week in the window.
C24_RowsPerDateSameColumns ==
    Figure2Returned =>
      /\ {ret.val[p].date : p \in DOMAIN ret.val} = DaysInWindow
      /\ Len(ret.val) = Cardinality(DaysInWindow)
      /\ \A p \in 1..(Len(ret.val) - 1) : ret.val[p].date < ret.val[p + 1].date
      /\ \A p \in DOMAIN ret.val :
           DOMAIN ret.val[p].cols =
             { ColumnOf(arg.cache[i].info) :
                 i \in {j \in DOMAIN arg.cache :
                          WeeksInWindow(arg.cache[j].info, Cutoff2) # {}} }

\* C24 witness: a public repository without languages with weeks on 4 and 11
\* Jan 1970 and a private one with a week on 11 Jan gave two rows, the first
\* with restricted = 0.
C24_Witness ==
    /\ Figure2Returned
    /\ Len(ret.val) = 2
    /\ ret.val[1] = [date |-> Sunday1 * 1000, cols |-> ("Other" :> 2) @@ ("restricted" :> 0)]
    /\ ret.val[2] = [date |-> Sunday2 * 1000, cols |-> ("Other" :> 1) @@ ("restricted" :> 1)]

\* C30: the cells of all rows sum to the commits of all repositories in the
\* weeks at or after the cutoff, and the cells of one row sum to the commits
\* of all repositories in the weeks that start on the row's day.
C30_CommitsConserved ==
    Figure2Returned =>
      /\ TableSum(ret.val, DOMAIN ret.val) = CommitsInWindow(DOMAIN arg.cache)
      /\ \A p \in DOMAIN ret.val :
           RowSum(ret.val[p].cols, DOMAIN ret.val[p].cols)
             = CommitsOn(DOMAIN arg.cache, ret.val[p].date)

\* C30 witness: two public repositories without languages, one with 2 commits
\* at 4 Jan 1970 00:00:00 and 1 on 11 Jan, the other with 1 commit at 4 Jan
\* 00:00:01, gave Other = 3 for 4 Jan and Other = 1 for 11 Jan.
C30_Witness ==
    /\ Figure2Returned
    /\ Len(arg.cache) = 2
    /\ arg.cache[2].info.weeks = <<[w |-> Sunday1 + 1, c |-> 1]>>
    /\ ret.val = << [date |-> Sunday1 * 1000, cols |-> ("Other" :> 3)],
                    [date |-> Sunday2 * 1000, cols |-> ("Other" :> 1)] >>

====
